---- MODULE Spec2Model ----
(***************************************************************************)
(* A model of synapseutils/copy.py: the recursive entity copy              *)
(* (copy, _copyRecursive, _copyFolder, _copyFile, _copyLink, _copyTable)   *)
(* and the wiki copy (copyWiki, _getSubWikiHeaders).                       *)
(*                                                                         *)
(* The remote platform is the function ent (entity id -> entity record)    *)
(* together with fileHandles; every syn.* call of the source reads or      *)
(* writes these.  The recursion of _copyRecursive/_copyFolder is the       *)
(* explicit stack of container frames, and call is the pending             *)
(* _copyRecursive invocation.                                              *)
(***************************************************************************)
EXTENDS Integers, Sequences, FiniteSets, TLC

VARIABLES
    ent,          \* the platform: entity id -> entity record (kind "none" = no such entity)
    fileHandles,  \* the platform: file handle id -> [createdBy, listed, externalURL]
    mapping,      \* copy.py: the mapping dict {old id: new id}
    call,         \* the pending _copyRecursive(entity, destinationId) call, or NoCall
    stack,        \* the Project / Folder invocations whose child loops are running
    status,       \* "running" | "returned" | "raised"
    err,          \* the exception that left copy() and the entity whose copy raised it
    opt,          \* the keyword arguments copy() hands to _copyRecursive
    created,      \* ids of the entities syn.store created during this invocation
    downloaded,   \* source files whose bytes were downloaded (downloadFile=True)
    nextId,       \* the next entity id the platform issues
    nextHandle,   \* the next file handle id the platform issues
    wikiCalls,    \* the (oldEnt, mapping[oldEnt]) pairs copyWiki was called with
    pages,        \* the platform: wiki page id -> page record (owner 0 = no such page)
    wopt,         \* the arguments of copyWiki
    wpc,          \* where copyWiki is: "start", "pages", "synids", "store", "done", "raised"
    oldWh,        \* copyWiki: the list of source headers
    widx,         \* copyWiki: the position of the running loop in its list
    wikiIdMap,    \* copyWiki: the wikiIdMap dict {old page id: new page id}
    newWikis,     \* copyWiki: the newWikis dict {new page id: Wiki object}
    storeOrder,   \* copyWiki: the order in which wikiIdMap.keys() yields the keys
    wresult,      \* what copyWiki returned or raised
    nextPage,     \* the next wiki page id the platform issues
    invocation,   \* the running copy() call: its number, its entity, its copyWikiPage
    chunk         \* utils.Chunk: the file object, the generator chunks() and its Chunk

walkVars == <<ent, fileHandles, mapping, call, stack, status, err, opt, created,
              downloaded, nextId, nextHandle, wikiCalls>>

wikiVars == <<pages, wopt, wpc, oldWh, widx, wikiIdMap, newWikis, storeOrder,
              wresult, nextPage>>

vars == <<walkVars, wikiVars, invocation, chunk>>

----------------------------------------------------------------------------
(* Bounds *)

\* the largest number of entities in the source tree
MaxSrc == 3

\* the largest number of pages in the source wiki
MaxPages == 3

----------------------------------------------------------------------------
(* Identifiers.  Source entities are 1..MaxSrc (the root is 1), then the    *)
(* destination container, an entity already in it, the live target of the  *)
(* source Links; a Link whose target was deleted points at GoneTarget.      *)

Root == 1
DestId == MaxSrc + 1
ExistingId == MaxSrc + 2
LiveTarget == MaxSrc + 3
GoneTarget == MaxSrc + 4
FirstNewId == MaxSrc + 5
MaxId == 2 * MaxSrc + 4
Ids == 1..MaxId

\* file handles: source file i holds handle i, the existing entity its own,
\* new uploads are issued handles from FirstNewHandle
FirstNewHandle == MaxSrc + 3
MaxHandle == 2 * MaxSrc + 2
HandleIds == 1..MaxHandle

Me == "me"
Other == "other"

NoEnt == [kind |-> "none", name |-> 0, parent |-> 0, annotations |-> 0,
          dataFileHandleId |-> 0, activity |-> [name |-> "", used |-> 0],
          targetId |-> 0, targetVersionNumber |-> 0,
          columnIds |-> 0, rows |-> 0]

NoActivity == [name |-> "", used |-> 0]
NoHandle == [createdBy |-> "", listed |-> FALSE, externalURL |-> 0]
NoCall == [entity |-> 0, destinationId |-> 0]
NoError == [type |-> "", entity |-> 0]
NoInvocation == [number |-> 0, entity |-> 0, copyWikiPage |-> FALSE]

\* no file is being read in chunks
NoChunk == [fileobj |-> 0, remaining |-> 0, chunksize |-> 0, op |-> "",
            exists |-> FALSE, size |-> 0, position |-> 0, closed |-> FALSE,
            requested |-> 0, returned |-> ""]

Exists(i) == i \in Ids /\ ent[i].kind # "none"

\* syn.chunkedQuery('select id, name from entity where parentId=="%s"')
Children(p) == {i \in Ids : ent[i].kind # "none" /\ ent[i].parent = p}

\* syn.query('select name from entity where parentId == "%s"'): the names found
ChildNames(p) == {ent[i].name : i \in Children(p)}

\* the project an entity lies in (its projectId), 0 when outside every modelled project
RECURSIVE ProjectOf(_)
ProjectOf(i) ==
    IF i \notin Ids \/ ent[i].kind = "none" THEN 0
    ELSE IF ent[i].kind = "Project" THEN i
    ELSE ProjectOf(ent[i].parent)

\* syn.query('select name from table where projectId == "%s"'): the names found
TableNames(p) ==
    {ent[i].name : i \in {j \in Ids : ent[j].kind = "Table" /\ ent[j].parent # 0
                                      /\ ProjectOf(ent[j].parent) = p}}

Put(m, k, v) == [x \in (DOMAIN m) \cup {k} |-> IF x = k THEN v ELSE m[x]]

EmptyMapping == [x \in {} |-> 0]

----------------------------------------------------------------------------
(* syn.store(entity), createOrUpdate left at its default: an entity of the  *)
(* same name under the same parent is updated in place when it is of the    *)
(* same kind, and the platform refuses the store otherwise.  The platform   *)
(* also refuses a Link whose target does not exist.                         *)

Existing(parent, name) ==
    {i \in Ids : ent[i].kind # "none" /\ ent[i].parent = parent /\ ent[i].name = name}

StoreIsNew(r) == Existing(r.parent, r.name) = {}

StoreTarget(r) ==
    IF StoreIsNew(r) THEN nextId ELSE CHOOSE x \in Existing(r.parent, r.name) : TRUE

StoreFails(r) ==
    \/ ~StoreIsNew(r) /\ ent[StoreTarget(r)].kind # r.kind
    \/ r.kind = "Link" /\ ~Exists(r.targetId)

StoredEnt(r) == [ent EXCEPT ![StoreTarget(r)] = r]

Stored(r) ==
    /\ ent' = StoredEnt(r)
    /\ created' = IF StoreIsNew(r) THEN created \cup {nextId} ELSE created
    /\ nextId' = IF StoreIsNew(r) THEN nextId + 1 ELSE nextId

----------------------------------------------------------------------------
(* Raising: the exception leaves every active invocation and copy() itself *)

\* a variant in which the error is caught and the caller's loop goes on
RaiseCaught(e) ==
    /\ status' = status
    /\ err' = [type |-> e, entity |-> call.entity]
    /\ call' = NoCall
    /\ stack' = stack

Raise(e) ==
    /\ status' = "raised"
    /\ err' = [type |-> e, entity |-> call.entity]
    /\ call' = NoCall
    /\ stack' = <<>>

\* _copyRecursive returns to the loop that called it
ReturnToCaller ==
    /\ call' = NoCall
    /\ UNCHANGED <<status, err, stack>>

Pending(kind) ==
    /\ status = "running"
    /\ call # NoCall
    /\ ent[call.entity].kind = kind

\* lines 92-95: excludeTypes is a list drawn from file, link, table
ExcludeTypesOk == opt.excludeTypes \subseteq {"file", "link", "table"}

Top == stack[Len(stack)]
Pop == SubSeq(stack, 1, Len(stack) - 1)

----------------------------------------------------------------------------
(* _copyRecursive, source a Project: lines 98-105 *)

\* a variant that leaves the Project unmapped on entry
copyRecursiveProjectUnmapped ==
    /\ Pending("Project")
    /\ UNCHANGED <<ent, fileHandles, opt, created, downloaded, nextId, nextHandle, wikiCalls>>
    /\ UNCHANGED mapping
    /\ IF ~ExcludeTypesOk \/ opt.version # 0
          \/ ent[call.destinationId].kind # "Project"
       THEN Raise("InvalidArgument")
       ELSE /\ stack' = Append(stack, [entity |-> call.entity, kind |-> "Project",
                                        newId |-> call.destinationId,
                                        entities |-> Children(call.entity)])
            /\ call' = NoCall
            /\ UNCHANGED <<status, err>>
    /\ UNCHANGED <<wikiVars, invocation, chunk>>

\* a variant that creates a container for the Project inside the destination
copyRecursiveProjectNewContainer ==
    /\ Pending("Project")
    /\ UNCHANGED <<fileHandles, opt, downloaded, nextHandle, wikiCalls>>
    /\ IF ~ExcludeTypesOk \/ opt.version # 0
          \/ ent[call.destinationId].kind # "Project"
       THEN Raise("InvalidArgument") /\ UNCHANGED <<ent, mapping, created, nextId>>
       ELSE /\ ent' = [ent EXCEPT ![nextId] =
                         [NoEnt EXCEPT !.kind = "Folder", !.name = ent[call.entity].name,
                                       !.parent = call.destinationId]]
            /\ created' = created \cup {nextId}
            /\ nextId' = nextId + 1
            /\ mapping' = Put(mapping, call.entity, nextId)
            /\ stack' = Append(stack, [entity |-> call.entity, kind |-> "Project",
                                        newId |-> nextId,
                                        entities |-> Children(call.entity)])
            /\ call' = NoCall
            /\ UNCHANGED <<status, err>>
    /\ UNCHANGED <<wikiVars, invocation, chunk>>

\* a variant that takes a Folder as the destination of a Project as well
copyRecursiveProjectIntoFolder ==
    /\ Pending("Project")
    /\ UNCHANGED <<ent, fileHandles, opt, created, downloaded, nextId, nextHandle, wikiCalls>>
    /\ IF ~ExcludeTypesOk \/ opt.version # 0
          \/ ent[call.destinationId].kind \notin {"Project", "Folder"}
       THEN Raise("InvalidArgument") /\ UNCHANGED mapping
       ELSE /\ mapping' = Put(mapping, call.entity, call.destinationId)
            /\ stack' = Append(stack, [entity |-> call.entity, kind |-> "Project",
                                        newId |-> call.destinationId,
                                        entities |-> Children(call.entity)])
            /\ call' = NoCall
            /\ UNCHANGED <<status, err>>
    /\ UNCHANGED <<wikiVars, invocation, chunk>>

copyRecursiveProject ==
    /\ Pending("Project")
    /\ UNCHANGED <<ent, fileHandles, opt, created, downloaded, nextId, nextHandle, wikiCalls>>
    /\ IF ~ExcludeTypesOk \/ opt.version # 0
          \/ ent[call.destinationId].kind # "Project"
       THEN Raise("InvalidArgument") /\ UNCHANGED mapping
       ELSE /\ mapping' = Put(mapping, call.entity, call.destinationId)
            /\ stack' = Append(stack, [entity |-> call.entity, kind |-> "Project",
                                        newId |-> call.destinationId,
                                        entities |-> Children(call.entity)])
            /\ call' = NoCall
            /\ UNCHANGED <<status, err>>
    /\ UNCHANGED <<wikiVars, invocation, chunk>>

(* _copyRecursive, source a Folder: lines 108-111, and _copyFolder up to   *)
(* the listing of the children, lines 148-158                              *)

NewFolder(old, destinationId) ==
    [NoEnt EXCEPT !.kind = "Folder", !.name = ent[old].name,
                  !.parent = destinationId, !.annotations = ent[old].annotations]

\* a variant that stores the new Folder before it checks the name
copyFolderStoreFirst ==
    /\ Pending("Folder")
    /\ UNCHANGED <<fileHandles, opt, downloaded, nextHandle, wikiCalls, mapping>>
    /\ IF ~ExcludeTypesOk \/ opt.version # 0
       THEN Raise("InvalidArgument") /\ UNCHANGED <<ent, created, nextId>>
       ELSE LET r == NewFolder(call.entity, call.destinationId)
            IN /\ ent' = [ent EXCEPT ![nextId] = r]
               /\ created' = created \cup {nextId}
               /\ nextId' = nextId + 1
               /\ IF ent[call.entity].name \in ChildNames(call.destinationId)
                  THEN Raise("DuplicateName")
                  ELSE /\ stack' = Append(stack,
                             [entity |-> call.entity, kind |-> "Folder", newId |-> nextId,
                              entities |-> Children(call.entity)])
                       /\ call' = NoCall
                       /\ UNCHANGED <<status, err>>
    /\ UNCHANGED <<wikiVars, invocation, chunk>>

copyFolder ==
    /\ Pending("Folder")
    /\ UNCHANGED <<fileHandles, opt, downloaded, nextHandle, wikiCalls, mapping>>
    /\ IF ~ExcludeTypesOk \/ opt.version # 0
       THEN Raise("InvalidArgument") /\ UNCHANGED <<ent, created, nextId>>
       ELSE IF ent[call.entity].name \in ChildNames(call.destinationId)
       THEN Raise("DuplicateName") /\ UNCHANGED <<ent, created, nextId>>
       ELSE LET r == NewFolder(call.entity, call.destinationId)
                id == StoreTarget(r)
            IN IF StoreFails(r)
               THEN Raise("RemoteError") /\ UNCHANGED <<ent, created, nextId>>
               ELSE /\ Stored(r)
                    /\ stack' = Append(stack,
                          [entity |-> call.entity, kind |-> "Folder", newId |-> id,
                           entities |-> {i \in Ids : StoredEnt(r)[i].kind # "none"
                                          /\ StoredEnt(r)[i].parent = call.entity}])
                    /\ call' = NoCall
                    /\ UNCHANGED <<status, err>>
    /\ UNCHANGED <<wikiVars, invocation, chunk>>

(* the loops of lines 106-107 and 159-160: the next child is handed to     *)
(* _copyRecursive, in the order the query returned the children            *)

\* a variant that hands every child the destination of the whole copy
nextChildFlat ==
    /\ status = "running"
    /\ call = NoCall
    /\ stack # <<>>
    /\ \E c \in Top.entities :
         /\ call' = [entity |-> c, destinationId |-> DestId]
         /\ stack' = [stack EXCEPT ![Len(stack)].entities = @ \ {c}]
    /\ UNCHANGED <<ent, fileHandles, mapping, status, err, opt, created, downloaded,
                   nextId, nextHandle, wikiCalls>>
    /\ UNCHANGED <<wikiVars, invocation, chunk>>

nextChild ==
    /\ status = "running"
    /\ call = NoCall
    /\ stack # <<>>
    /\ \E c \in Top.entities :
         /\ call' = [entity |-> c, destinationId |-> Top.newId]
         /\ stack' = [stack EXCEPT ![Len(stack)].entities = @ \ {c}]
    /\ UNCHANGED <<ent, fileHandles, mapping, status, err, opt, created, downloaded,
                   nextId, nextHandle, wikiCalls>>
    /\ UNCHANGED <<wikiVars, invocation, chunk>>

(* the Project's loop is over: lines 131-135 *)
copyProjectReturn ==
    /\ status = "running"
    /\ call = NoCall
    /\ stack # <<>>
    /\ Top.kind = "Project"
    /\ Top.entities = {}
    /\ stack' = Pop
    /\ UNCHANGED <<ent, fileHandles, mapping, call, status, err, opt, created,
                   downloaded, nextId, nextHandle, wikiCalls>>
    /\ UNCHANGED <<wikiVars, invocation, chunk>>

(* _copyFolder returns newFolder.id, line 161, and _copyRecursive maps the *)
(* Folder, line 112                                                        *)
\* a variant that returns without mapping the Folder
copyFolderReturnUnmapped ==
    /\ status = "running"
    /\ call = NoCall
    /\ stack # <<>>
    /\ Top.kind = "Folder"
    /\ Top.entities = {}
    /\ stack' = Pop
    /\ UNCHANGED <<ent, fileHandles, mapping, call, status, err, opt, created,
                   downloaded, nextId, nextHandle, wikiCalls>>
    /\ UNCHANGED <<wikiVars, invocation, chunk>>

copyFolderReturn ==
    /\ status = "running"
    /\ call = NoCall
    /\ stack # <<>>
    /\ Top.kind = "Folder"
    /\ Top.entities = {}
    /\ mapping' = Put(mapping, Top.entity, Top.newId)
    /\ stack' = Pop
    /\ UNCHANGED <<ent, fileHandles, call, status, err, opt, created,
                   downloaded, nextId, nextHandle, wikiCalls>>
    /\ UNCHANGED <<wikiVars, invocation, chunk>>

----------------------------------------------------------------------------
(* _copyFile, lines 182-243, called from _copyRecursive lines 113-117 *)

\* a variant of the name check that ignores update
FileNameCollidesAlways(entity, destinationId) ==
    ent[entity].name \in ChildNames(destinationId)

\* lines 184-188: the name check, skipped when update is set
FileNameCollides(entity, destinationId) ==
    ~opt.update /\ ent[entity].name \in ChildNames(destinationId)

\* lines 192-204: setProvenance is traceback, existing or none
SetProvenanceOk ==
    opt.setProvenance \in {"traceback", "existing", "none"}

\* a variant of lines 195-200 without the except clause
ExistingProvenanceUncaught(entity) ==
    [raised |-> ent[entity].activity = NoActivity, act |-> ent[entity].activity]

\* lines 195-200: syn.getProvenance answers 404 for an entity without provenance;
\* the except clause turns that into act = None
ExistingProvenance(entity) ==
    [raised |-> FALSE, act |-> ent[entity].activity]

\* lines 192-202: the activity the new File is stored with
Provenance(entity) ==
    IF opt.setProvenance = "traceback"
    THEN [name |-> "Copied file", used |-> entity]
    ELSE IF opt.setProvenance = "existing"
    THEN ExistingProvenance(entity).act
    ELSE NoActivity

\* a variant that takes every listed handle for the caller's own
HandleIsListed(entity) ==
    fileHandles[ent[entity].dataFileHandleId].listed

\* lines 206-217: the handle matching dataFileHandleId was created by the caller
CreatedByMe(entity) ==
    LET h == fileHandles[ent[entity].dataFileHandleId]
        createdBy == IF h.listed THEN h.createdBy ELSE ""
    IN createdBy = Me

\* lines 222-234: which copy the handle of the new File is
IsExternal(entity) == fileHandles[ent[entity].dataFileHandleId].externalURL # 0

NewFileHandleId(entity) ==
    IF CreatedByMe(entity) THEN ent[entity].dataFileHandleId ELSE nextHandle

NewFile(entity, destinationId) ==
    [NoEnt EXCEPT !.kind = "File", !.name = ent[entity].name,
                  !.parent = destinationId,
                  !.annotations = ent[entity].annotations,
                  !.dataFileHandleId = NewFileHandleId(entity),
                  !.activity = Provenance(entity)]

\* syn.get(downloadFile=True) and the upload syn.store makes of a File built from a path
Transfer(entity) ==
    IF CreatedByMe(entity)
    THEN UNCHANGED <<fileHandles, nextHandle, downloaded>>
    ELSE /\ fileHandles' = [fileHandles EXCEPT ![nextHandle] =
              [createdBy |-> Me, listed |-> TRUE,
               externalURL |-> fileHandles[ent[entity].dataFileHandleId].externalURL]]
         /\ nextHandle' = nextHandle + 1
         /\ downloaded' = IF IsExternal(entity) THEN downloaded
                          ELSE downloaded \cup {entity}

copyFile ==
    /\ Pending("File")
    /\ UNCHANGED <<opt, wikiCalls>>
    /\ IF ~ExcludeTypesOk
       THEN /\ Raise("InvalidArgument")
            /\ UNCHANGED <<ent, fileHandles, mapping, created, downloaded, nextId, nextHandle>>
       ELSE IF "file" \in opt.excludeTypes
       THEN /\ ReturnToCaller
            /\ UNCHANGED <<ent, fileHandles, mapping, created, downloaded, nextId, nextHandle>>
       ELSE IF FileNameCollides(call.entity, call.destinationId)
       THEN /\ Raise("DuplicateName")
            /\ UNCHANGED <<ent, fileHandles, mapping, created, downloaded, nextId, nextHandle>>
       ELSE IF ~SetProvenanceOk
       THEN /\ Raise("InvalidArgument")
            /\ UNCHANGED <<ent, fileHandles, mapping, created, downloaded, nextId, nextHandle>>
       ELSE IF opt.setProvenance = "existing" /\ ExistingProvenance(call.entity).raised
       THEN /\ Raise("RemoteError")
            /\ UNCHANGED <<ent, fileHandles, mapping, created, downloaded, nextId, nextHandle>>
       ELSE LET r == NewFile(call.entity, call.destinationId)
            IN /\ Transfer(call.entity)
               /\ IF StoreFails(r)
                  THEN Raise("RemoteError") /\ UNCHANGED <<ent, mapping, created, nextId>>
                  ELSE /\ Stored(r)
                       /\ mapping' = Put(mapping, call.entity, StoreTarget(r))
                       /\ ReturnToCaller
    /\ UNCHANGED <<wikiVars, invocation, chunk>>

----------------------------------------------------------------------------
(* _copyLink, lines 296-309, called from _copyRecursive lines 118-123.     *)
(* The new Link is built without a name, so the platform names it by its   *)
(* own id.                                                                 *)

\* a variant that points the new Link at the latest version of the target
NewLinkLatestVersion(entity, destinationId) ==
    [NoEnt EXCEPT !.kind = "Link", !.name = nextId, !.parent = destinationId,
                  !.targetId = ent[entity].targetId]

NewLink(entity, destinationId) ==
    [NoEnt EXCEPT !.kind = "Link", !.name = nextId, !.parent = destinationId,
                  !.targetId = ent[entity].targetId,
                  !.targetVersionNumber = ent[entity].targetVersionNumber]

\* a variant that lets the failure of the store leave _copyLink
copyLinkUncaught ==
    /\ Pending("Link")
    /\ UNCHANGED <<fileHandles, opt, downloaded, nextHandle, wikiCalls>>
    /\ IF ~ExcludeTypesOk
       THEN Raise("InvalidArgument") /\ UNCHANGED <<ent, mapping, created, nextId>>
       ELSE IF "link" \in opt.excludeTypes
       THEN ReturnToCaller /\ UNCHANGED <<ent, mapping, created, nextId>>
       ELSE IF ent[call.entity].name \in ChildNames(call.destinationId)
       THEN Raise("DuplicateName") /\ UNCHANGED <<ent, mapping, created, nextId>>
       ELSE LET r == NewLink(call.entity, call.destinationId)
            IN IF StoreFails(r)
               THEN Raise("RemoteError") /\ UNCHANGED <<ent, mapping, created, nextId>>
               ELSE /\ Stored(r)
                    /\ mapping' = Put(mapping, call.entity, StoreTarget(r))
                    /\ ReturnToCaller
    /\ UNCHANGED <<wikiVars, invocation, chunk>>

copyLink ==
    /\ Pending("Link")
    /\ UNCHANGED <<fileHandles, opt, downloaded, nextHandle, wikiCalls>>
    /\ IF ~ExcludeTypesOk
       THEN Raise("InvalidArgument") /\ UNCHANGED <<ent, mapping, created, nextId>>
       ELSE IF "link" \in opt.excludeTypes
       THEN ReturnToCaller /\ UNCHANGED <<ent, mapping, created, nextId>>
       ELSE IF ent[call.entity].name \in ChildNames(call.destinationId)
       THEN Raise("DuplicateName") /\ UNCHANGED <<ent, mapping, created, nextId>>
       ELSE LET r == NewLink(call.entity, call.destinationId)
            IN IF StoreFails(r)
               THEN \* lines 307-309: the failure is caught, None is returned
                    ReturnToCaller /\ UNCHANGED <<ent, mapping, created, nextId>>
               ELSE /\ Stored(r)
                    /\ mapping' = Put(mapping, call.entity, StoreTarget(r))
                    /\ ReturnToCaller
    /\ UNCHANGED <<wikiVars, invocation, chunk>>

----------------------------------------------------------------------------
(* _copyTable, lines 258-286, called from _copyRecursive lines 124-127     *)
(* (setAnnotations keeps its default, False)                               *)

NewTable(entity, destinationId) ==
    [NoEnt EXCEPT !.kind = "Table", !.name = ent[entity].name,
                  !.parent = destinationId,
                  !.columnIds = ent[entity].columnIds,
                  !.rows = ent[entity].rows]

\* a variant that honours excludeTypes only for the entity copy() was called for
copyTableExcludedAtTopOnly ==
    /\ Pending("Table")
    /\ UNCHANGED <<fileHandles, opt, downloaded, nextHandle, wikiCalls>>
    /\ IF ~ExcludeTypesOk
       THEN Raise("InvalidArgument") /\ UNCHANGED <<ent, mapping, created, nextId>>
       ELSE IF "table" \in opt.excludeTypes /\ stack = <<>>
       THEN ReturnToCaller /\ UNCHANGED <<ent, mapping, created, nextId>>
       ELSE IF ent[call.entity].name \in TableNames(call.destinationId)
       THEN Raise("DuplicateName") /\ UNCHANGED <<ent, mapping, created, nextId>>
       ELSE LET r == NewTable(call.entity, call.destinationId)
            IN IF StoreFails(r)
               THEN Raise("RemoteError") /\ UNCHANGED <<ent, mapping, created, nextId>>
               ELSE /\ Stored(r)
                    /\ mapping' = Put(mapping, call.entity, StoreTarget(r))
                    /\ ReturnToCaller
    /\ UNCHANGED <<wikiVars, invocation, chunk>>

copyTable ==
    /\ Pending("Table")
    /\ UNCHANGED <<fileHandles, opt, downloaded, nextHandle, wikiCalls>>
    /\ IF ~ExcludeTypesOk
       THEN Raise("InvalidArgument") /\ UNCHANGED <<ent, mapping, created, nextId>>
       ELSE IF "table" \in opt.excludeTypes
       THEN ReturnToCaller /\ UNCHANGED <<ent, mapping, created, nextId>>
       ELSE IF ent[call.entity].name \in TableNames(call.destinationId)
       THEN Raise("DuplicateName") /\ UNCHANGED <<ent, mapping, created, nextId>>
       ELSE LET r == NewTable(call.entity, call.destinationId)
            IN IF StoreFails(r)
               THEN Raise("RemoteError") /\ UNCHANGED <<ent, mapping, created, nextId>>
               ELSE /\ Stored(r)
                    /\ mapping' = Put(mapping, call.entity, StoreTarget(r))
                    /\ ReturnToCaller
    /\ UNCHANGED <<wikiVars, invocation, chunk>>

----------------------------------------------------------------------------
(* _copyRecursive, any other kind of entity: lines 128-129 *)

copyRecursiveOther ==
    /\ Pending("Other")
    /\ IF ~ExcludeTypesOk THEN Raise("InvalidArgument")
       ELSE Raise("UnsupportedEntityType")
    /\ UNCHANGED <<ent, fileHandles, mapping, opt, created, downloaded, nextId,
                   nextHandle, wikiCalls>>
    /\ UNCHANGED <<wikiVars, invocation, chunk>>

----------------------------------------------------------------------------
(* copy(), lines 64-70: _copyRecursive has returned; copyWiki is called    *)
(* for every entry of the mapping and the mapping is returned              *)

copyReturn ==
    /\ status = "running"
    /\ call = NoCall
    /\ stack = <<>>
    /\ status' = "returned"
    /\ wikiCalls' = IF invocation.copyWikiPage
                    THEN {<<oldEnt, mapping[oldEnt]>> : oldEnt \in DOMAIN mapping}
                    ELSE {}
    /\ UNCHANGED <<ent, fileHandles, mapping, call, stack, err, opt, created,
                   downloaded, nextId, nextHandle>>
    /\ UNCHANGED <<wikiVars, invocation, chunk>>

----------------------------------------------------------------------------
(* The state in which copy(syn, Root, DestId, **opt) is called *)

ChildShapes == {"Folder", "File", "LinkLive", "LinkGone", "Table", "Other"}
RootShapes == ChildShapes \cup {"Project"}

KindOf(shape) == IF shape \in {"LinkLive", "LinkGone"} THEN "Link" ELSE shape

\* the source trees of n entities: entity i > 1 lies in a container created before it
Trees(n) ==
    {t \in [shape : [1..n -> RootShapes], par : [1..n -> 0..(n - 1)]] :
        /\ t.par[1] = 0
        /\ \A i \in 2..n : /\ t.par[i] \in 1..(i - 1)
                           /\ t.shape[t.par[i]] \in {"Project", "Folder"}
                           /\ t.shape[i] # "Project"}

SourceEnt(i, shape, parent, act) ==
    [NoEnt EXCEPT !.kind = KindOf(shape), !.name = i, !.parent = parent,
                  !.annotations = i,
                  !.dataFileHandleId = IF shape = "File" THEN i ELSE 0,
                  !.activity = IF shape = "File" THEN act ELSE NoActivity,
                  !.targetId = IF shape = "LinkLive" THEN LiveTarget
                               ELSE IF shape = "LinkGone" THEN GoneTarget ELSE 0,
                  !.targetVersionNumber = IF KindOf(shape) = "Link" THEN i ELSE 0,
                  !.columnIds = IF shape = "Table" THEN i ELSE 0,
                  !.rows = IF shape = "Table" THEN i ELSE 0]

\* the entity already in the destination: exKind "none" when there is none
ExistingEnt(exKind, exName) ==
    IF exKind = "none" THEN NoEnt
    ELSE [NoEnt EXCEPT !.kind = exKind, !.name = exName, !.parent = DestId,
                       !.dataFileHandleId = IF exKind = "File" THEN MaxSrc + 1 ELSE 0]

OriginalActivity == [name |-> "original", used |-> LiveTarget]

\* wiki pages: the source pages are 1..MaxPages, then a page of the destination
DestPage == MaxPages + 1
FirstNewPage == MaxPages + 2
MaxPageId == 2 * MaxPages + 1
PageIds == 1..MaxPageId

NoPage == [owner |-> 0, parentWikiId |-> 0, title |-> 0, markdown |-> <<>>,
           attachments |-> <<>>]

NoWikiCall == [entity |-> 0, destinationId |-> 0, entitySubPageId |-> 0,
               destinationSubPageId |-> 0, updateLinks |-> FALSE,
               updateSynIds |-> FALSE, hasEntityMap |-> FALSE,
               entityMap |-> EmptyMapping]

\* no copyWiki call is running
WikiIdle ==
    /\ pages = [p \in PageIds |-> NoPage]
    /\ wopt = NoWikiCall
    /\ wpc = "idle"
    /\ oldWh = <<>>
    /\ widx = 0
    /\ wikiIdMap = EmptyMapping
    /\ newWikis = EmptyMapping
    /\ storeOrder = <<>>
    /\ wresult = ""
    /\ nextPage = FirstNewPage

\* the platform's entities and the call copy(syn, Root, DestId, mapping=seed, **o)
InitCall(n, t, destKind, exKind, exName, o, srcHandle, act, seed) ==
    /\ ent = [i \in Ids |->
                IF i \in 1..n THEN SourceEnt(i, t.shape[i], t.par[i], act)
                ELSE IF i = DestId THEN [NoEnt EXCEPT !.kind = destKind, !.name = DestId]
                ELSE IF i = ExistingId THEN ExistingEnt(exKind, exName)
                ELSE IF i = LiveTarget
                     THEN [NoEnt EXCEPT !.kind = "File", !.name = LiveTarget,
                                        !.dataFileHandleId = MaxSrc + 2]
                ELSE NoEnt]
    /\ fileHandles = [h \in HandleIds |->
                IF h \in 1..n /\ t.shape[h] = "File" THEN srcHandle
                ELSE IF h \in {MaxSrc + 1, MaxSrc + 2}
                     THEN [createdBy |-> Other, listed |-> TRUE, externalURL |-> 0]
                ELSE NoHandle]
    /\ mapping = seed
    /\ call = [entity |-> Root, destinationId |-> DestId]
    /\ chunk = NoChunk
    /\ stack = <<>>
    /\ status = "running"
    /\ err = NoError
    /\ opt = o
    /\ created = {}
    /\ downloaded = {}
    /\ nextId = FirstNewId
    /\ nextHandle = FirstNewHandle
    /\ wikiCalls = {}

\* the call without a mapping: kwargs.pop('mapping', dict()) makes a new dict
InitEntities(n, t, destKind, exKind, exName, o, srcHandle, act) ==
    InitCall(n, t, destKind, exKind, exName, o, srcHandle, act, EmptyMapping)

InitWith(n, t, destKind, exKind, exName, o, srcHandle, act) ==
    /\ InitEntities(n, t, destKind, exKind, exName, o, srcHandle, act)
    /\ WikiIdle

\* an option that no entity of the tree reads keeps its default
Relevant(n, t, o) ==
    LET kinds == {KindOf(t.shape[i]) : i \in 1..n}
    IN /\ o.update => "File" \in kinds
       /\ "file" \in o.excludeTypes => "File" \in kinds
       /\ "link" \in o.excludeTypes => "Link" \in kinds
       /\ "table" \in o.excludeTypes => "Table" \in kinds

\* the walk: every source tree, the destination empty or holding one entity
\* named like a source entity; the Files are the caller's own, without provenance
Init ==
    \E n \in 1..MaxSrc :
    \E t \in Trees(n) :
    \E destKind \in {"Project", "Folder"} :
    \E exKind \in {"none", "File", "Table"} :
    \E exName \in 1..n :
    \E o \in [version : {0, 1}, update : BOOLEAN, setProvenance : {"traceback"},
              excludeTypes : SUBSET {"file", "link", "table"}] :
    \E copyWikiPage \in BOOLEAN :
        /\ exKind = "none" => exName = 1
        /\ Relevant(n, t, o)
        /\ invocation = [number |-> 1, entity |-> Root, copyWikiPage |-> copyWikiPage]
        /\ InitWith(n, t, destKind, exKind, exName, o,
                    [createdBy |-> Me, listed |-> TRUE, externalURL |-> 0], NoActivity)

\* one File copied on its own: every file handle, provenance and option
InitFile ==
    \E destKind \in {"Project", "Folder"} :
    \E exKind \in {"none", "File", "Table"} :
    \E o \in [version : {0, 1}, update : BOOLEAN,
              setProvenance : {"traceback", "existing", "none", "other"},
              excludeTypes : SUBSET {"file"}] :
    \E srcHandle \in [createdBy : {Me, Other}, listed : BOOLEAN, externalURL : {0, 1}] :
    \E act \in {NoActivity, OriginalActivity} :
    \E copyWikiPage \in BOOLEAN :
        /\ invocation = [number |-> 1, entity |-> Root, copyWikiPage |-> copyWikiPage]
        /\ InitWith(1, [shape |-> <<"File">>, par |-> <<0>>], destKind, exKind, 1, o,
                    srcHandle, act)

Next ==
    \/ copyRecursiveProject
    \/ copyFolder
    \/ nextChild
    \/ copyProjectReturn
    \/ copyFolderReturn
    \/ copyFile
    \/ copyLink
    \/ copyTable
    \/ copyRecursiveOther
    \/ copyReturn

Spec == Init /\ [][Next]_vars

NextFile ==
    \/ copyFile
    \/ copyReturn

SpecFile == InitFile /\ [][NextFile]_vars

----------------------------------------------------------------------------
(* Properties of the entity walk *)

\* the entities reachable from the source root by parent-to-child listings
RECURSIVE UnderRoot(_)
UnderRoot(i) ==
    IF i = Root THEN TRUE
    ELSE IF i \notin Ids \/ ent[i].kind = "none" \/ ent[i].parent = 0 THEN FALSE
    ELSE UnderRoot(ent[i].parent)

SourceTree == {i \in Ids : ent[i].kind # "none" /\ UnderRoot(i)}

ExcludedKind(i) ==
    \/ ent[i].kind = "File" /\ "file" \in opt.excludeTypes
    \/ ent[i].kind = "Link" /\ "link" \in opt.excludeTypes
    \/ ent[i].kind = "Table" /\ "table" \in opt.excludeTypes

BrokenLink(i) == ent[i].kind = "Link" /\ ent[ent[i].targetId].kind = "none"

\* C1: when copy() has returned normally, every entity reachable from the source
\* root is a key of the mapping, except the File/Link/Table entities of an excluded
\* kind and the Links whose creation failed.
C1_AllReachableMapped ==
    status = "returned" =>
        \A e \in SourceTree : e \in DOMAIN mapping \/ ExcludedKind(e) \/ BrokenLink(e)

\* a returned copy of a three-level tree, all of it mapped
C1_Witness ==
    /\ status = "returned"
    /\ Cardinality(SourceTree) = 3
    /\ \E e \in SourceTree : ent[e].parent # Root /\ e # Root
    /\ SourceTree \subseteq DOMAIN mapping

C3_NoPartialCreation ==
    (status = "raised" /\ err.type = "DuplicateName") => created = {}

\* C3 amended: when the copy raises a name collision, the colliding entity has not
\* been created nor mapped, and nothing at all has been created when the colliding
\* entity is the source entity itself; entities the walk copied before it reached
\* the colliding one stay at the destination, each of them the copy of another
\* source entity.
C3_CollidingEntityNotCreated ==
    (status = "raised" /\ err.type = "DuplicateName") =>
        /\ err.entity \notin DOMAIN mapping
        /\ \A c \in created : ent[c].name # ent[err.entity].name
        /\ err.entity = Root => created = {}
        /\ \A c \in created :
              \/ ent[c].kind = "Link"
              \/ \E e \in SourceTree \ {err.entity} :
                    ent[e].name = ent[c].name /\ ent[e].kind = ent[c].kind

\* the second child of a Project collides after the first was copied
C3_Witness ==
    /\ status = "raised"
    /\ err.type = "DuplicateName"
    /\ err.entity # Root
    /\ created # {}

\* the scenario of C4: Project 1 holding Folder 2 holding File 3, copied with the
\* default options into an empty Project
ProjectFolderFile ==
    /\ ent[1].kind = "Project"
    /\ ent[2].kind = "Folder" /\ ent[2].parent = 1
    /\ ent[3].kind = "File" /\ ent[3].parent = 2
    /\ \A i \in 4..MaxSrc : ent[i].kind = "none"
    /\ ent[DestId].kind = "Project"
    /\ ent[ExistingId].kind = "none"
    /\ opt.version = 0 /\ ~opt.update /\ opt.excludeTypes = {}

\* C4: copying a Project creates no container for it: the Project is mapped to the
\* destination itself and the copy of each direct child lies directly in the
\* destination; Project 1 > Folder 2 > File 3 copied into an empty Project ends
\* without error with the mapping {1: destination, 2: new Folder, 3: new File}.
C4_ProjectMapsToDestination ==
    /\ ent[Root].kind = "Project" =>
          /\ Root \in DOMAIN mapping => mapping[Root] = DestId
          /\ \A c \in created : ent[c].kind # "Project" /\ ent[c].name # ent[Root].name
          /\ \A c \in Children(Root) \cap DOMAIN mapping : ent[mapping[c]].parent = DestId
    /\ ProjectFolderFile =>
          /\ err.type # "DuplicateName"
          /\ status # "running" =>
                /\ status = "returned"
                /\ DOMAIN mapping = {1, 2, 3}
                /\ mapping[1] = DestId
                /\ created = {mapping[2], mapping[3]}
                /\ mapping[2] # mapping[3]
                /\ ent[mapping[2]].kind = "Folder" /\ ent[mapping[2]].parent = DestId
                /\ ent[mapping[2]].name = ent[2].name
                /\ ent[mapping[3]].kind = "File" /\ ent[mapping[3]].parent = mapping[2]
                /\ ent[mapping[3]].name = ent[3].name

\* the scenario has returned
C4_Witness ==
    /\ ProjectFolderFile
    /\ status = "returned"
    /\ Cardinality(DOMAIN mapping) = 3

\* C8: a copied Link points at the target and the target version of the source
\* Link; the target is not copied: it is no key of the mapping and no entity
\* created by the copy carries its name or its file handle.
C8_LinkTargetKept ==
    /\ \A l \in SourceTree \cap DOMAIN mapping :
          ent[l].kind = "Link" =>
              /\ mapping[l] \in created
              /\ ent[mapping[l]].kind = "Link"
              /\ ent[mapping[l]].targetId = ent[l].targetId
              /\ ent[mapping[l]].targetVersionNumber = ent[l].targetVersionNumber
    /\ \A l \in SourceTree :
          ent[l].kind = "Link" =>
              /\ ent[l].targetId \notin DOMAIN mapping
              /\ ent[l].targetId \notin created
              /\ \A c \in created :
                    ent[ent[l].targetId].kind # "none" =>
                        /\ ent[c].name # ent[ent[l].targetId].name
                        /\ ent[c].dataFileHandleId # ent[ent[l].targetId].dataFileHandleId

\* a Link inside a Folder has been copied
C8_Witness ==
    \E l \in SourceTree \cap DOMAIN mapping :
        /\ ent[l].kind = "Link"
        /\ l # Root
        /\ status = "returned"
        /\ ent[mapping[l]].targetId = LiveTarget

\* C9: a Link whose target is gone is never mapped, the failure of its store does
\* not leave copy() (only the name check of the Link can raise), and when copy()
\* returns its siblings are mapped like those of any other entity.
C9_BrokenLinkSkipped ==
    \A l \in SourceTree :
        BrokenLink(l) =>
            /\ l \notin DOMAIN mapping
            /\ (status = "raised" /\ err.entity = l) => err.type = "DuplicateName"
            /\ (status = "returned" /\ l # Root) =>
                  \A s \in Children(ent[l].parent) \ {l} :
                      s \in DOMAIN mapping \/ ExcludedKind(s) \/ BrokenLink(s)

\* the store of a broken Link has failed and the walk goes on to its sibling
C9_Witness ==
    \E l \in SourceTree : \E s \in SourceTree :
        /\ BrokenLink(l) /\ "link" \notin opt.excludeTypes
        /\ s # l /\ ent[s].parent = ent[l].parent
        /\ status = "running" /\ stack # <<>>
        /\ l \notin Top.entities
        /\ call.entity = s

\* the copy has returned with the sibling of a broken Link mapped
C9_WitnessReturned ==
    \E l \in SourceTree : \E s \in SourceTree :
        /\ BrokenLink(l) /\ "link" \notin opt.excludeTypes
        /\ s # l /\ ent[s].parent = ent[l].parent
        /\ status = "returned"
        /\ s \in DOMAIN mapping

----------------------------------------------------------------------------
(* Properties of the File copier, for a File copied on its own (SpecFile) *)

\* the destination held an entity named like the source File before the copy
NameTaken == ent[ExistingId].kind # "none" /\ ent[ExistingId].name = ent[Root].name

\* _copyFile was called and copy() is over
FileCopierRan ==
    /\ ent[Root].kind = "File"
    /\ "file" \notin opt.excludeTypes
    /\ status # "running"

\* C5: a File copied with update=False into a destination holding an entity of the
\* same name raises the name collision and creates, maps, transfers and changes
\* nothing; with update=True the name is not checked: no name collision is raised
\* and, unless setProvenance is invalid or the platform refuses the store, the File
\* is stored under the destination (as a new entity, or over the File of that name).
C5_FileNameCheck ==
    FileCopierRan =>
        /\ (~opt.update /\ NameTaken) =>
              /\ status = "raised" /\ err = [type |-> "DuplicateName", entity |-> Root]
              /\ created = {} /\ mapping = EmptyMapping
              /\ downloaded = {} /\ nextId = FirstNewId /\ nextHandle = FirstNewHandle
              /\ ent[ExistingId] = ExistingEnt(ent[ExistingId].kind, ent[Root].name)
        /\ opt.update =>
              /\ err.type # "DuplicateName"
              /\ (opt.setProvenance \in {"traceback", "existing", "none"}
                  /\ ~(NameTaken /\ ent[ExistingId].kind # "File")) =>
                    /\ status = "returned"
                    /\ DOMAIN mapping = {Root}
                    /\ ent[mapping[Root]].kind = "File"
                    /\ ent[mapping[Root]].name = ent[Root].name
                    /\ ent[mapping[Root]].parent = DestId
                    /\ ent[mapping[Root]].annotations = ent[Root].annotations
                    /\ IF NameTaken THEN mapping[Root] = ExistingId /\ created = {}
                       ELSE created = {mapping[Root]}

\* the collision was raised
C5_Witness ==
    /\ FileCopierRan
    /\ ~opt.update /\ NameTaken
    /\ status = "raised"

\* update=True stored the File over the one of the same name
C5_WitnessUpdate ==
    /\ FileCopierRan
    /\ opt.update /\ NameTaken
    /\ status = "returned"

\* C6: the new File holds the source's file handle exactly when the handle listed
\* for the source's dataFileHandleId was created by the caller; otherwise (another
\* creator, or no listed handle matches) a platform-hosted file is downloaded and
\* uploaded again, which gives a new handle, and an external file is stored again
\* under the same URL with no bytes downloaded.
C6_HandleReuse ==
    (ent[Root].kind = "File" /\ Root \in DOMAIN mapping) =>
        LET src == ent[Root]
            h == fileHandles[src.dataFileHandleId]
            new == ent[mapping[Root]]
            nh == fileHandles[new.dataFileHandleId]
            mine == h.listed /\ h.createdBy = Me
        IN /\ (new.dataFileHandleId = src.dataFileHandleId) <=> mine
           /\ mine => downloaded = {} /\ nextHandle = FirstNewHandle
           /\ ~mine =>
                 /\ new.dataFileHandleId = FirstNewHandle
                 /\ nextHandle = FirstNewHandle + 1
                 /\ nh.createdBy = Me
                 /\ nh.externalURL = h.externalURL
                 /\ downloaded = IF h.externalURL = 0 THEN {Root} ELSE {}

\* a File created by another user was downloaded and uploaded again
C6_Witness ==
    /\ ent[Root].kind = "File" /\ Root \in DOMAIN mapping
    /\ fileHandles[ent[Root].dataFileHandleId].listed
    /\ fileHandles[ent[Root].dataFileHandleId].createdBy = Other
    /\ fileHandles[ent[Root].dataFileHandleId].externalURL = 0
    /\ downloaded = {Root}
    /\ ent[mapping[Root]].dataFileHandleId # ent[Root].dataFileHandleId

\* C7: the new File is stored with an activity that used the source when
\* setProvenance is traceback, with the source's recorded provenance when it is
\* existing, and with none when it is none; existing on a source without
\* provenance does not raise: the File is stored without provenance.
C7_Provenance ==
    /\ (ent[Root].kind = "File" /\ Root \in DOMAIN mapping) =>
          ent[mapping[Root]].activity =
              CASE opt.setProvenance = "traceback" ->
                       [name |-> "Copied file", used |-> Root]
                [] opt.setProvenance = "existing" -> ent[Root].activity
                [] OTHER -> NoActivity
    /\ (/\ FileCopierRan
        /\ opt.setProvenance = "existing"
        /\ ent[Root].activity = NoActivity
        /\ ~(NameTaken /\ (~opt.update \/ ent[ExistingId].kind # "File"))) =>
          /\ status = "returned"
          /\ Root \in DOMAIN mapping
          /\ ent[mapping[Root]].activity = NoActivity

\* existing, on a source without provenance, stored the File
C7_Witness ==
    /\ FileCopierRan
    /\ opt.setProvenance = "existing"
    /\ ent[Root].activity = NoActivity
    /\ status = "returned"
    /\ Root \in DOMAIN mapping

----------------------------------------------------------------------------
(* copyWiki, lines 356-446.  Text is a sequence of characters, where "syn"  *)
(* and "/wiki/" count as one character each; ids are written in decimal.    *)

DigitChars == <<"0", "1", "2", "3", "4", "5", "6", "7", "8", "9">>

\* str(n)
RECURSIVE Digits(_)
Digits(n) ==
    IF n < 10 THEN <<DigitChars[n + 1]>>
    ELSE Digits(n \div 10) \o <<DigitChars[(n % 10) + 1]>>

\* a Synapse id, "syn<n>"
SynId(n) == <<"syn">> \o Digits(n)

\* "%s/wiki/%s" % (entity, wikiId), lines 415-416
ProjectAndWikiId(entity, wikiId) == SynId(entity) \o <<"/wiki/">> \o Digits(wikiId)

\* re.sub(pat, rep, text) for a pattern without special characters: every
\* occurrence of pat, found from the left without overlap, becomes rep
RECURSIVE ReSub(_, _, _)
ReSub(pat, rep, text) ==
    IF Len(text) < Len(pat) \/ Len(pat) = 0 THEN text
    ELSE IF SubSeq(text, 1, Len(pat)) = pat
    THEN rep \o ReSub(pat, rep, SubSeq(text, Len(pat) + 1, Len(text)))
    ELSE <<text[1]>> \o ReSub(pat, rep, Tail(text))

\* the orders in which a list or the keys of a dict may come
Perms(S) ==
    {f \in [1..Cardinality(S) -> S] : \A a, b \in 1..Cardinality(S) : f[a] = f[b] => a = b}

\* syn.getWikiHeaders(owner): the headers of the owner's pages, parentId 0 when absent
Header(p) == [id |-> p, parentId |-> pages[p].parentWikiId]
PagesOf(owner) == {p \in PageIds : pages[p].owner = owner}

(* _getSubWikiHeaders, lines 311-327.  The header appended first has lost   *)
(* its parentId (line 318 pops it from the header itself).                  *)
RECURSIVE getSubWikiHeaders(_, _, _), getSubWikiHeadersLoop(_, _, _, _)
getSubWikiHeadersLoop(wikiHeaders, subPageId, m, k) ==
    IF k > Len(wikiHeaders) THEN m
    ELSE LET i == wikiHeaders[k]
             parentId == IF m # <<>> /\ m[1].id = i.id THEN 0 ELSE i.parentId
             m2 == IF i.id = subPageId /\ Len(m) = 0
                   THEN Append(m, [id |-> i.id, parentId |-> 0])
                   ELSE IF i.id = subPageId
                   THEN Append(m, [id |-> i.id, parentId |-> parentId])
                   ELSE IF parentId # 0 /\ parentId = subPageId
                   THEN getSubWikiHeaders(wikiHeaders, i.id, m)
                   ELSE m
         IN getSubWikiHeadersLoop(wikiHeaders, subPageId, m2, k + 1)

getSubWikiHeaders(wikiHeaders, subPageId, m) ==
    getSubWikiHeadersLoop(wikiHeaders, subPageId, m, 1)

WikiRaise(e) ==
    /\ wpc' = "raised"
    /\ wresult' = e

\* a variant that does not catch the error of getWikiHeaders
copyWikiStartUncaught ==
    /\ wpc = "start"
    /\ IF PagesOf(wopt.entity) = {}
       THEN /\ WikiRaise("SynapseHTTPError")
            /\ oldWh' = <<>>
       ELSE /\ \E order \in Perms(PagesOf(wopt.entity)) :
                 LET wh == [k \in 1..Len(order) |-> Header(order[k])]
                 IN oldWh' = IF wopt.entitySubPageId # 0
                             THEN getSubWikiHeaders(wh, wopt.entitySubPageId, <<>>)
                             ELSE wh
            /\ wpc' = "pages"
            /\ UNCHANGED wresult
    /\ widx' = 1
    /\ wikiIdMap' = EmptyMapping
    /\ newWikis' = EmptyMapping
    /\ UNCHANGED <<pages, wopt, storeOrder, nextPage>>
    /\ UNCHANGED <<walkVars, invocation, chunk>>

(* lines 356-368: the headers are fetched, restricted to the sub page when  *)
(* one is given; an owner without wiki gives "no wiki"                      *)
copyWikiStart ==
    /\ wpc = "start"
    /\ IF PagesOf(wopt.entity) = {}
       THEN /\ wpc' = "done"
            /\ wresult' = "no wiki"
            /\ oldWh' = <<>>
       ELSE /\ \E order \in Perms(PagesOf(wopt.entity)) :
                 LET wh == [k \in 1..Len(order) |-> Header(order[k])]
                 IN oldWh' = IF wopt.entitySubPageId # 0
                             THEN getSubWikiHeaders(wh, wopt.entitySubPageId, <<>>)
                             ELSE wh
            /\ wpc' = "pages"
            /\ UNCHANGED wresult
    /\ widx' = 1
    /\ wikiIdMap' = EmptyMapping
    /\ newWikis' = EmptyMapping
    /\ UNCHANGED <<pages, wopt, storeOrder, nextPage>>
    /\ UNCHANGED <<walkVars, invocation, chunk>>

\* the destination already has a root page
HasRoot(owner) == \E p \in PagesOf(owner) : pages[p].parentWikiId = 0

\* lines 388 and 398: the new page built from the source page
NewWiki(wiki, parentWikiId) ==
    [owner |-> wopt.destinationId, parentWikiId |-> parentWikiId,
     title |-> wiki.title, markdown |-> wiki.markdown,
     attachments |-> wiki.attachments]

(* one turn of the loop of lines 369-401 *)
copyWikiPage ==
    /\ wpc = "pages"
    /\ widx <= Len(oldWh)
    /\ LET i == oldWh[widx]
           wiki == pages[i.id]
       IN IF i.parentId # 0
          THEN IF wiki.parentWikiId \notin DOMAIN wikiIdMap
               THEN /\ WikiRaise("KeyError")
                    /\ UNCHANGED <<pages, nextPage, newWikis, wikiIdMap, widx>>
               ELSE LET wNew == NewWiki(wiki, wikiIdMap[wiki.parentWikiId])
                    IN /\ pages' = [pages EXCEPT ![nextPage] = wNew]
                       /\ newWikis' = Put(newWikis, nextPage, wNew)
                       /\ wikiIdMap' = Put(wikiIdMap, i.id, nextPage)
                       /\ nextPage' = nextPage + 1
                       /\ widx' = widx + 1
                       /\ UNCHANGED <<wpc, wresult>>
          ELSE IF wopt.destinationSubPageId # 0
          THEN IF pages[wopt.destinationSubPageId].owner # wopt.destinationId
               THEN /\ WikiRaise("RemoteError")
                    /\ UNCHANGED <<pages, nextPage, newWikis, wikiIdMap, widx>>
               ELSE LET wNew == [pages[wopt.destinationSubPageId] EXCEPT
                                    !.attachments = wiki.attachments,
                                    !.markdown = wiki.markdown]
                    IN /\ pages' = [pages EXCEPT ![wopt.destinationSubPageId] = wNew]
                       /\ newWikis' = Put(newWikis, wopt.destinationSubPageId, wNew)
                       /\ wikiIdMap' = Put(wikiIdMap, i.id, wopt.destinationSubPageId)
                       /\ widx' = widx + 1
                       /\ UNCHANGED <<wpc, wresult, nextPage>>
          ELSE IF HasRoot(wopt.destinationId)
               THEN /\ WikiRaise("RemoteError")
                    /\ UNCHANGED <<pages, nextPage, newWikis, wikiIdMap, widx>>
               ELSE LET wNew == NewWiki(wiki, 0)
                    IN /\ pages' = [pages EXCEPT ![nextPage] = wNew]
                       /\ newWikis' = Put(newWikis, nextPage, wNew)
                       /\ wikiIdMap' = Put(wikiIdMap, i.id, nextPage)
                       /\ nextPage' = nextPage + 1
                       /\ widx' = widx + 1
                       /\ UNCHANGED <<wpc, wresult>>
    /\ UNCHANGED <<wopt, oldWh, storeOrder>>
    /\ UNCHANGED <<walkVars, invocation, chunk>>

\* a variant that replaces the bare entity id before the page links
RECURSIVE UpdateLinksTextEntityFirst(_, _, _)
UpdateLinksTextEntityFirst(s, keys, k) ==
    IF k > Len(keys) THEN s
    ELSE UpdateLinksTextEntityFirst(
             ReSub(ProjectAndWikiId(wopt.entity, keys[k]),
                   ProjectAndWikiId(wopt.destinationId, wikiIdMap[keys[k]]),
                   IF k = 1 THEN ReSub(SynId(wopt.entity), SynId(wopt.destinationId), s)
                   ELSE s),
             keys, k + 1)

\* lines 414-419: the markdown of one page after the link pass
RECURSIVE UpdateLinksText(_, _, _)
UpdateLinksText(s, keys, k) ==
    IF k > Len(keys)
    THEN ReSub(SynId(wopt.entity), SynId(wopt.destinationId), s)
    ELSE UpdateLinksText(
             ReSub(ProjectAndWikiId(wopt.entity, keys[k]),
                   ProjectAndWikiId(wopt.destinationId, wikiIdMap[keys[k]]), s),
             keys, k + 1)

\* lines 405-420: the pages are rewritten one key of wikiIdMap after the other
RECURSIVE UpdateLinksPages(_, _, _)
UpdateLinksPages(nw, keys, k) ==
    IF k > Len(keys) THEN nw
    ELSE LET newWikiId == wikiIdMap[keys[k]]
         IN UpdateLinksPages(
                [nw EXCEPT ![newWikiId].markdown = UpdateLinksText(@, keys, 1)],
                keys, k + 1)

\* a variant that stores each page as soon as its links are rewritten
copyWikiUpdateLinksStoring ==
    /\ wpc = "pages"
    /\ widx > Len(oldWh)
    /\ \E keys \in Perms(DOMAIN wikiIdMap) :
         /\ storeOrder' = keys
         /\ newWikis' = IF wopt.updateLinks THEN UpdateLinksPages(newWikis, keys, 1)
                        ELSE newWikis
    /\ pages' = [p \in PageIds |-> IF p \in DOMAIN newWikis' THEN newWikis'[p] ELSE pages[p]]
    /\ wpc' = "synids"
    /\ UNCHANGED <<wopt, oldWh, widx, wikiIdMap, wresult, nextPage>>
    /\ UNCHANGED <<walkVars, invocation, chunk>>

(* the page loop is over; lines 403-420, the pass over the internal links. *)
(* The keys of wikiIdMap come in one order, the same in every later loop.  *)
copyWikiUpdateLinks ==
    /\ wpc = "pages"
    /\ widx > Len(oldWh)
    /\ \E keys \in Perms(DOMAIN wikiIdMap) :
         /\ storeOrder' = keys
         /\ newWikis' = IF wopt.updateLinks THEN UpdateLinksPages(newWikis, keys, 1)
                        ELSE newWikis
    /\ wpc' = "synids"
    /\ UNCHANGED <<pages, wopt, oldWh, widx, wikiIdMap, wresult, nextPage>>
    /\ UNCHANGED <<walkVars, invocation, chunk>>

\* a variant that rewrites every Synapse id, whether or not it is a key
RECURSIVE UpdateSynIdsTextAnyId(_, _, _)
UpdateSynIdsTextAnyId(s, ekeys, k) ==
    IF k > Len(ekeys) THEN s
    ELSE UpdateSynIdsTextAnyId(
             ReSub(<<"syn">>, SynId(wopt.entityMap[ekeys[k]]), s), ekeys, k + 1)

\* lines 431-434: the markdown of one page after the pass over the Synapse ids
RECURSIVE UpdateSynIdsText(_, _, _)
UpdateSynIdsText(s, ekeys, k) ==
    IF k > Len(ekeys) THEN s
    ELSE UpdateSynIdsText(
             ReSub(SynId(ekeys[k]), SynId(wopt.entityMap[ekeys[k]]), s), ekeys, k + 1)

RECURSIVE UpdateSynIdsPages(_, _, _, _)
UpdateSynIdsPages(nw, keys, ekeys, k) ==
    IF k > Len(keys) THEN nw
    ELSE LET newWikiId == wikiIdMap[keys[k]]
         IN UpdateSynIdsPages(
                [nw EXCEPT ![newWikiId].markdown = UpdateSynIdsText(@, ekeys, 1)],
                keys, ekeys, k + 1)

(* lines 422-436, the pass over the Synapse ids *)
copyWikiUpdateSynIds ==
    /\ wpc = "synids"
    /\ IF wopt.updateSynIds /\ wopt.hasEntityMap
       THEN \E ekeys \in Perms(DOMAIN wopt.entityMap) :
               newWikis' = UpdateSynIdsPages(newWikis, storeOrder, ekeys, 1)
       ELSE UNCHANGED newWikis
    /\ wpc' = "store"
    /\ widx' = 1
    /\ UNCHANGED <<pages, wopt, oldWh, wikiIdMap, storeOrder, wresult, nextPage>>
    /\ UNCHANGED <<walkVars, invocation, chunk>>

(* one turn of the loop of lines 439-442: the rewritten page is stored *)
copyWikiStore ==
    /\ wpc = "store"
    /\ widx <= Len(storeOrder)
    /\ LET newWikiId == wikiIdMap[storeOrder[widx]]
       IN pages' = [pages EXCEPT ![newWikiId] = newWikis[newWikiId]]
    /\ widx' = widx + 1
    /\ UNCHANGED <<wopt, wpc, oldWh, wikiIdMap, newWikis, storeOrder, wresult, nextPage>>
    /\ UNCHANGED <<walkVars, invocation, chunk>>

(* lines 443-444: the headers of the destination are returned; as line 357 *)
(* notes, getWikiHeaders fails for an owner without wiki                   *)
copyWikiReturn ==
    /\ wpc = "store"
    /\ widx > Len(storeOrder)
    /\ IF PagesOf(wopt.destinationId) = {}
       THEN WikiRaise("SynapseHTTPError")
       ELSE wpc' = "done" /\ wresult' = "headers"
    /\ UNCHANGED <<pages, wopt, oldWh, widx, wikiIdMap, newWikis, storeOrder, nextPage>>
    /\ UNCHANGED <<walkVars, invocation, chunk>>

----------------------------------------------------------------------------
(* The state in which copyWiki(syn, Root, DestId, ...) is called *)

\* the source wikis of n pages: page 1 is the root, page i > 1 lies under an earlier page
WikiTrees(n) ==
    {par \in [1..n -> 0..(n - 1)] :
        \A i \in 1..n : IF i = 1 THEN par[i] = 0 ELSE par[i] \in 1..(i - 1)}

\* the text of source page i: a link to the page itself and a reference to its owner
SourceMarkdown(i) ==
    <<"see ">> \o ProjectAndWikiId(Root, i) \o <<" in ">> \o SynId(Root)

SourcePage(i, par) ==
    [owner |-> Root, parentWikiId |-> par[i], title |-> i,
     markdown |-> SourceMarkdown(i),
     attachments |-> IF i % 2 = 1 THEN <<i>> ELSE <<>>]

\* no copy() is running: the source and the destination entity exist
WalkIdle ==
    /\ ent = [i \in Ids |->
                IF i = Root THEN [NoEnt EXCEPT !.kind = "Project", !.name = Root]
                ELSE IF i = DestId THEN [NoEnt EXCEPT !.kind = "Project", !.name = DestId]
                ELSE NoEnt]
    /\ fileHandles = [h \in HandleIds |-> NoHandle]
    /\ mapping = EmptyMapping
    /\ call = NoCall
    /\ stack = <<>>
    /\ status = "idle"
    /\ err = NoError
    /\ opt = [version |-> 0, update |-> FALSE, setProvenance |-> "traceback",
              excludeTypes |-> {}]
    /\ created = {}
    /\ downloaded = {}
    /\ nextId = FirstNewId
    /\ nextHandle = FirstNewHandle
    /\ wikiCalls = {}
    /\ invocation = NoInvocation

\* every source wiki of at most MaxPages pages; the destination has no wiki, or
\* the page destinationSubPageId names
InitWiki ==
    \E n \in 0..MaxPages :
    \E par \in WikiTrees(n) :
    \E o \in [entity : {Root}, destinationId : {DestId},
              entitySubPageId : 0..n, destinationSubPageId : {0, DestPage},
              updateLinks : BOOLEAN, updateSynIds : BOOLEAN, hasEntityMap : BOOLEAN,
              entityMap : {[x \in {Root} |-> DestId]}] :
        /\ WalkIdle
        /\ chunk = NoChunk
        /\ pages = [p \in PageIds |->
                      IF p \in 1..n THEN SourcePage(p, par)
                      ELSE IF p = DestPage /\ o.destinationSubPageId = DestPage
                           THEN [owner |-> DestId, parentWikiId |-> 0, title |-> DestPage,
                                 markdown |-> <<"old">>, attachments |-> <<>>]
                      ELSE NoPage]
        /\ wopt = o
        /\ wpc = "start"
        /\ oldWh = <<>>
        /\ widx = 0
        /\ wikiIdMap = EmptyMapping
        /\ newWikis = EmptyMapping
        /\ storeOrder = <<>>
        /\ wresult = ""
        /\ nextPage = FirstNewPage

NextWiki ==
    \/ copyWikiStart
    \/ copyWikiPage
    \/ copyWikiUpdateLinks
    \/ copyWikiUpdateSynIds
    \/ copyWikiStore
    \/ copyWikiReturn

SpecWiki == InitWiki /\ [][NextWiki]_vars

----------------------------------------------------------------------------
(* Properties of copyWiki, checked under SpecWiki *)

\* the loop of lines 369-401 is about to copy a page whose header has a parentId
AtPageWithParent ==
    /\ wpc = "pages"
    /\ widx <= Len(oldWh)
    /\ oldWh[widx].parentId # 0

\* the lookup of line 388 is defined for the page the loop is about to copy
ParentEntryDefined ==
    AtPageWithParent => pages[oldWh[widx].id].parentWikiId \in DOMAIN wikiIdMap

\* the copies of a copied page and of its copied parent are child and parent
SameTopology ==
    \A p \in DOMAIN wikiIdMap :
        pages[p].parentWikiId \in DOMAIN wikiIdMap
            => pages[wikiIdMap[p]].parentWikiId = wikiIdMap[pages[p].parentWikiId]

\* C10: in copyWiki, whatever the order of the header list, the parent of every
\* source page with a parent has its entry in wikiIdMap when the page is about
\* to be created, and once the copy has returned its headers the new parent of
\* wikiIdMap[p] is wikiIdMap[parent(p)] for every copied page p whose parent
\* was copied.
C10_WikiTreeShape ==
    /\ ParentEntryDefined
    /\ wresult = "headers" => SameTopology

\* C10, second half alone: a copy that returns has kept the tree shape
C10_ReturnedTreeShape == wresult = "headers" => SameTopology

\* the header list names every parent before its children
ParentsFirst ==
    \A k \in DOMAIN oldWh :
        oldWh[k].parentId # 0 => \E j \in 1..(k - 1) : oldWh[j].id = oldWh[k].parentId

\* with parents first in the header list the claim of C10 holds
C10_ParentsFirstTreeShape ==
    (wpc # "start" /\ wopt.entitySubPageId = 0 /\ ParentsFirst) => C10_WikiTreeShape

----------------------------------------------------------------------------
(* The two rewrite passes of copyWiki, lines 403-442, started from the     *)
(* state the page loop leaves behind: the pages are copied, wikiIdMap and  *)
(* newWikis are filled, and the copies still carry the source markdown.    *)

\* the markdown of the scenario, "see syn1/wiki/5"
ScenarioText == <<"see ">> \o ProjectAndWikiId(1, 5)

\* the characters the markdown of a source page is written in
TextChars == {"see ", "syn", "/wiki/", "1", "2", "5"}

\* the markdown texts no longer than the scenario's
Texts == UNION {[1..k -> TextChars] : k \in 0..Len(ScenarioText)}

\* the wiki id maps the page loop has built: {5: 7} and {5: 7, 2: 6}
RewriteIdMaps == {[x \in {5} |-> 7], [x \in {2, 5} |-> IF x = 5 THEN 7 ELSE 6]}

\* the entity maps handed to copyWiki: {syn1: syn9} and {syn1: syn9, syn2: syn8}
RewriteEntityMaps == {[x \in {1} |-> 9], [x \in {1, 2} |-> IF x = 1 THEN 9 ELSE 8]}

\* the copy of source page p right after line 401
CopiedPage(p, text) ==
    [owner |-> 9, parentWikiId |-> 0, title |-> p, markdown |-> text,
     attachments |-> <<>>]

InitRewrite ==
    \E text \in Texts :
    \E idMap \in RewriteIdMaps :
    \E eMap \in RewriteEntityMaps :
    \E links \in BOOLEAN :
    \E synIds \in BOOLEAN :
        /\ WalkIdle
        /\ chunk = NoChunk
        /\ wopt = [entity |-> 1, destinationId |-> 9, entitySubPageId |-> 0,
                   destinationSubPageId |-> 0, updateLinks |-> links,
                   updateSynIds |-> synIds, hasEntityMap |-> TRUE, entityMap |-> eMap]
        /\ pages = [p \in PageIds |->
                      IF p \in DOMAIN idMap
                      THEN [owner |-> 1, parentWikiId |-> 0, title |-> p,
                            markdown |-> text, attachments |-> <<>>]
                      ELSE IF \E q \in DOMAIN idMap : idMap[q] = p
                      THEN CopiedPage(CHOOSE q \in DOMAIN idMap : idMap[q] = p, text)
                      ELSE NoPage]
        /\ wpc = "pages"
        /\ oldWh = <<>>
        /\ widx = 1
        /\ wikiIdMap = idMap
        /\ newWikis = [n \in {idMap[q] : q \in DOMAIN idMap} |->
                         CopiedPage(CHOOSE q \in DOMAIN idMap : idMap[q] = n, text)]
        /\ storeOrder = <<>>
        /\ wresult = ""
        /\ nextPage = MaxPageId

NextRewrite ==
    \/ copyWikiUpdateLinks
    \/ copyWikiUpdateSynIds
    \/ copyWikiStore
    \/ copyWikiReturn

SpecRewrite == InitRewrite /\ [][NextRewrite]_vars

----------------------------------------------------------------------------
(* Properties of the rewrite passes, checked under SpecRewrite *)

\* pat occurs in text
Occurs(pat, text) ==
    \E i \in 1..(Len(text) - Len(pat) + 1) : SubSeq(text, i, i + Len(pat) - 1) = pat

\* the scenario: page 5 reads "see syn1/wiki/5", wikiIdMap is {5: 7}, the entity
\* map is {syn1: syn9} and both passes are switched on
RewriteScenario ==
    /\ pages[5].markdown = ScenarioText
    /\ wikiIdMap = [x \in {5} |-> 7]
    /\ wopt.entity = 1 /\ wopt.destinationId = 9
    /\ wopt.entityMap = [x \in {1} |-> 9]
    /\ wopt.updateLinks /\ wopt.updateSynIds /\ wopt.hasEntityMap

\* C11: with updateLinks and updateSynIds set, the copy of a page reading
\* "see syn1/wiki/5", copied from syn1 to syn9 with wikiIdMap {5: 7} and entity
\* map {syn1: syn9}, is stored reading "see syn9/wiki/7".
C11_ScenarioRewritten ==
    (RewriteScenario /\ wpc = "done")
        => pages[7].markdown = <<"see ">> \o ProjectAndWikiId(9, 7)

\* the scenario has run to its end
C11_Witness ==
    /\ RewriteScenario
    /\ wpc = "done"
    /\ wresult = "headers"
    /\ pages[7].markdown = <<"see ", "syn", "9", "/wiki/", "7">>

\* text names neither the source entity nor a key of the entity map
NoSourceReference(text) ==
    /\ ~Occurs(SynId(wopt.entity), text)
    /\ \A k \in DOMAIN wopt.entityMap : ~Occurs(SynId(k), text)

\* C12: whatever the wiki id map and the entity map, the copy of a page whose
\* markdown holds no occurrence of the source entity id and none of a key of the
\* entity map is stored with the markdown of the source page.
C12_NoReferenceNoChange ==
    wpc = "done" =>
        \A p \in DOMAIN wikiIdMap :
            NoSourceReference(pages[p].markdown)
                => pages[wikiIdMap[p]].markdown = pages[p].markdown

\* both passes have run over a page that names another entity and a wiki page
C12_Witness ==
    /\ wpc = "done"
    /\ wopt.updateLinks /\ wopt.updateSynIds
    /\ NoSourceReference(pages[5].markdown)
    /\ Occurs(<<"syn", "2", "/wiki/", "5">>, pages[5].markdown)
    /\ pages[7].markdown = pages[5].markdown

----------------------------------------------------------------------------
(* copy() with its wiki copies, lines 58-70: the walk, then one copyWiki   *)
(* call for every key of the mapping, then the return of the mapping.      *)
(* wopt holds updateLinks and updateSynIds from the start (lines 58-61).   *)

\* the largest source tree copied together with its wikis
MaxCopySrc == MaxSrc - 1

\* a variant that begins the wiki copies as soon as some _copyRecursive call is
\* over, whether or not it is the outermost
copyWalkedEarly ==
    /\ status = "running"
    /\ call = NoCall
    /\ status' = IF invocation.copyWikiPage THEN "wikis" ELSE "returned"
    /\ wikiCalls' = {}
    /\ UNCHANGED <<ent, fileHandles, mapping, call, stack, err, opt, created,
                   downloaded, nextId, nextHandle>>
    /\ UNCHANGED <<wikiVars, invocation, chunk>>

\* lines 64-65: _copyRecursive has returned the mapping
copyWalked ==
    /\ status = "running"
    /\ call = NoCall
    /\ stack = <<>>
    /\ status' = IF invocation.copyWikiPage THEN "wikis" ELSE "returned"
    /\ wikiCalls' = {}
    /\ UNCHANGED <<ent, fileHandles, mapping, call, stack, err, opt, created,
                   downloaded, nextId, nextHandle>>
    /\ UNCHANGED <<wikiVars, invocation, chunk>>

\* the keys of the mapping the loop of line 66 has yet to visit
WikiPending == DOMAIN mapping \ {c[1] : c \in wikiCalls}

\* lines 66-69: copyWiki is called for the next key of the mapping
copyWikiCall ==
    /\ status = "wikis"
    /\ wpc \in {"idle", "done"}
    /\ \E oldEnt \in WikiPending :
         /\ wikiCalls' = wikiCalls \cup {<<oldEnt, mapping[oldEnt]>>}
         /\ wopt' = [wopt EXCEPT !.entity = oldEnt, !.destinationId = mapping[oldEnt],
                                 !.hasEntityMap = TRUE, !.entityMap = mapping]
    /\ wpc' = "start"
    /\ UNCHANGED <<ent, fileHandles, mapping, call, stack, status, err, opt, created,
                   downloaded, nextId, nextHandle>>
    /\ UNCHANGED <<pages, oldWh, widx, wikiIdMap, newWikis, storeOrder, wresult, nextPage>>
    /\ UNCHANGED <<invocation, chunk>>

\* an exception of copyWiki is not caught in copy()
copyWikiRaised ==
    /\ status = "wikis"
    /\ wpc = "raised"
    /\ status' = "raised"
    /\ err' = [type |-> wresult, entity |-> wopt.entity]
    /\ UNCHANGED <<ent, fileHandles, mapping, call, stack, opt, created, downloaded,
                   nextId, nextHandle, wikiCalls>>
    /\ UNCHANGED <<wikiVars, invocation, chunk>>

\* line 70: the loop is over, the mapping is returned
copyReturnMapping ==
    /\ status = "wikis"
    /\ wpc \in {"idle", "done"}
    /\ WikiPending = {}
    /\ status' = "returned"
    /\ UNCHANGED <<ent, fileHandles, mapping, call, stack, err, opt, created,
                   downloaded, nextId, nextHandle, wikiCalls>>
    /\ UNCHANGED <<wikiVars, invocation, chunk>>

\* the entities in and below e
RECURSIVE Under(_, _)
Under(e, i) ==
    IF i = e THEN TRUE
    ELSE IF i \notin Ids \/ ent[i].kind = "none" \/ ent[i].parent = 0 THEN FALSE
    ELSE Under(e, ent[i].parent)

SubTree(e) == {i \in Ids : ent[i].kind # "none" /\ Under(e, i)}

\* the platform has ids left for the copies of e, its subtree and their pages
Room(e) ==
    /\ nextId + Cardinality(SubTree(e)) <= MaxId + 1
    /\ nextPage + Cardinality(UNION {PagesOf(i) : i \in SubTree(e)}) <= MaxPageId + 1

\* a variant in which the second call goes on with the dict of the first
copyAgainSameDict ==
    /\ status = "returned"
    /\ invocation.number = 1
    /\ \E e \in SubTree(Root) \ {Root} :
         /\ Room(e)
         /\ invocation' = [invocation EXCEPT !.number = 2, !.entity = e]
         /\ call' = [entity |-> e, destinationId |-> DestId]
    /\ UNCHANGED mapping
    /\ status' = "running"
    /\ err' = NoError
    /\ created' = {}
    /\ downloaded' = {}
    /\ wikiCalls' = {}
    /\ UNCHANGED <<ent, fileHandles, stack, opt, nextId, nextHandle>>
    /\ UNCHANGED <<wikiVars, chunk>>

(* a second call copy(syn, e, DestId, ...) of the same program, made after *)
(* the first has returned: line 62 gives it the dict() of its own          *)
copyAgain ==
    /\ status = "returned"
    /\ invocation.number = 1
    /\ \E e \in SubTree(Root) \ {Root} :
         /\ Room(e)
         /\ invocation' = [invocation EXCEPT !.number = 2, !.entity = e]
         /\ call' = [entity |-> e, destinationId |-> DestId]
    /\ mapping' = EmptyMapping
    /\ status' = "running"
    /\ err' = NoError
    /\ created' = {}
    /\ downloaded' = {}
    /\ wikiCalls' = {}
    /\ UNCHANGED <<ent, fileHandles, stack, opt, nextId, nextHandle>>
    /\ UNCHANGED <<wikiVars, chunk>>

\* the wiki of source entity i: one page, which names every source entity
EntityPage(i, n) ==
    [owner |-> i, parentWikiId |-> 0, title |-> i,
     markdown |-> <<"see ">> \o ProjectAndWikiId(i, i) \o <<" in ">> \o SynId(n),
     attachments |-> <<>>]

\* Projects, Folders and Files, some with a wiki, copied into an empty Project
\* or one that holds a File named like a source entity; the destination of a
\* source Project may have a wiki of its own
InitCopy ==
    \E n \in 1..MaxCopySrc :
    \E t \in Trees(n) :
    \E exKind \in {"none", "File"} :
    \E exName \in 1..n :
    \E hasWiki \in SUBSET (1..n) :
    \E withWikis \in BOOLEAN :
    \E links \in BOOLEAN :
    \E synIds \in BOOLEAN :
    \E destWiki \in BOOLEAN :
    \E sub \in 0..n :
        /\ sub # 0 => (sub \in hasWiki /\ withWikis)
        /\ \A i \in 1..n : t.shape[i] \in {"Project", "Folder", "File"}
        /\ destWiki => (t.shape[1] = "Project" /\ withWikis /\ exKind = "none")
        /\ exKind = "none" => exName = 1
        /\ (hasWiki = {} \/ ~withWikis) => (links /\ synIds)
        /\ InitEntities(n, t, "Project", exKind, exName,
                        [version |-> 0, update |-> FALSE, setProvenance |-> "traceback",
                         excludeTypes |-> {}],
                        [createdBy |-> Me, listed |-> TRUE, externalURL |-> 0], NoActivity)
        /\ invocation = [number |-> 1, entity |-> Root, copyWikiPage |-> withWikis]
        /\ pages = [p \in PageIds |->
                      IF p \in hasWiki THEN EntityPage(p, n)
                      ELSE IF p = DestPage /\ destWiki
                           THEN [owner |-> DestId, parentWikiId |-> 0, title |-> DestPage,
                                 markdown |-> <<"old">>, attachments |-> <<>>]
                      ELSE NoPage]
        /\ wopt = [NoWikiCall EXCEPT !.updateLinks = links, !.updateSynIds = synIds,
                                     !.entitySubPageId = sub]
        /\ wpc = "idle"
        /\ oldWh = <<>>
        /\ widx = 0
        /\ wikiIdMap = EmptyMapping
        /\ newWikis = EmptyMapping
        /\ storeOrder = <<>>
        /\ wresult = ""
        /\ nextPage = FirstNewPage

NextCopy ==
    \/ copyRecursiveProject
    \/ copyFolder
    \/ nextChild
    \/ copyProjectReturn
    \/ copyFolderReturn
    \/ copyFile
    \/ copyWalked
    \/ copyWikiCall
    \/ copyWikiStart
    \/ copyWikiPage
    \/ copyWikiUpdateLinks
    \/ copyWikiUpdateSynIds
    \/ copyWikiStore
    \/ copyWikiReturn
    \/ copyWikiRaised
    \/ copyReturnMapping
    \/ copyAgain

SpecCopy == InitCopy /\ [][NextCopy]_vars

----------------------------------------------------------------------------
(* Properties of copy() with its wiki copies, checked under SpecCopy *)

\* copyWiki is about to fetch the headers of an entity that has no wiki
AtEntityWithoutWiki == wpc = "start" /\ PagesOf(wopt.entity) = {}

\* C13: copyWiki of an entity without wiki returns "no wiki": it does not raise
\* and leaves every page as it is; inside copy() the loop over the mapping goes
\* on, so that every key of the mapping gets its copyWiki call, every wiki of a
\* mapped entity is copied, and the mapping is returned.
C13_NoWikiSentinel ==
    /\ [][AtEntityWithoutWiki =>
            /\ wpc' = "done"
            /\ wresult' = "no wiki"
            /\ pages' = pages
            /\ nextPage' = nextPage
            /\ status' = status
            /\ mapping' = mapping]_vars
    /\ []((status = "raised" /\ wpc = "raised") => PagesOf(wopt.entity) # {})
    /\ []((status = "returned" /\ invocation.copyWikiPage) =>
            /\ WikiPending = {}
            /\ wopt.entitySubPageId = 0 =>
                  \A k \in DOMAIN mapping : PagesOf(k) # {} => PagesOf(mapping[k]) # {})

\* a copy has returned its mapping after the wiki of one entity was copied and
\* copyWiki was called for another that has none
C13_Witness ==
    /\ status = "returned"
    /\ invocation.number = 1
    /\ wresult = "headers"
    /\ \E k \in DOMAIN mapping : PagesOf(k) = {} /\ <<k, mapping[k]>> \in wikiCalls
    /\ \E k \in DOMAIN mapping : PagesOf(k) # {} /\ PagesOf(mapping[k]) # {}


\* the walk of the running call is over and has mapped its whole source tree
WalkComplete ==
    /\ call = NoCall
    /\ stack = <<>>
    /\ SubTree(invocation.entity) \subseteq DOMAIN mapping

\* C14: copy() has two phases.  Pages change only while the loop over the
\* mapping runs, which begins when the walk is over and the whole source tree is
\* mapped; every copyWiki call gets that mapping as its entity map; with
\* copyWikiPage false there is no such loop and nothing of the wikis changes.
C14_TwoPhase ==
    /\ [][pages' # pages => (status = "wikis" /\ status' = "wikis")]_vars
    /\ [](status = "wikis" => WalkComplete)
    /\ []((status = "wikis" /\ wikiCalls # {}) =>
            (wopt.hasEntityMap /\ wopt.entityMap = mapping))
    /\ [](~invocation.copyWikiPage => (status # "wikis" /\ wikiCalls = {}))
    /\ [][~invocation.copyWikiPage => wikiVars' = wikiVars]_vars

\* the pass over the Synapse ids has rewritten the copied page of a tree of two
C14_Witness ==
    /\ status = "wikis"
    /\ wpc = "store"
    /\ wopt.updateSynIds
    /\ nextPage > FirstNewPage
    /\ Cardinality(DOMAIN mapping) >= 2
    /\ invocation.number = 1


\* C20: nothing is carried from one top-level call to the next.  Every entry of
\* the mapping of a second copy() call made without a mapping of the caller is
\* an entity of that call's source tree with a copy that call created; and each
\* copyWiki call, with or without entitySubPageId, begins with empty wikiIdMap
\* and newWikis and a header list that holds only pages of its own entity.
C20_NoStateAcrossCalls ==
    /\ [](invocation.number = 2 =>
            \A k \in DOMAIN mapping :
                k \in SubTree(invocation.entity) /\ mapping[k] \in created)
    /\ [][wpc = "start" =>
            /\ wikiIdMap' = EmptyMapping
            /\ newWikis' = EmptyMapping
            /\ \A k \in DOMAIN oldWh' : pages[oldWh'[k].id].owner = wopt.entity]_vars

\* a second call has returned its mapping after copying a wiki, as the first did
C20_Witness ==
    /\ invocation.number = 2
    /\ status = "returned"
    /\ mapping # EmptyMapping
    /\ wikiIdMap # EmptyMapping
    /\ Cardinality({p \in PageIds : pages[p].owner \in created}) >= 1
    /\ nextPage >= FirstNewPage + 2

----------------------------------------------------------------------------
(* Properties of the errors of the walk, checked under Spec *)

\* _copyRecursive was called with a version for a Project or a Folder
VersionOnContainer ==
    /\ status = "running"
    /\ call # NoCall
    /\ ent[call.entity].kind \in {"Project", "Folder"}
    /\ opt.version # 0

\* the entity _copyRecursive was called for is to be copied and the name checks
\* of lines 150-153, 184-188, 260-263 or 298-301 find its name
NameCollision ==
    /\ status = "running"
    /\ call # NoCall
    /\ ExcludeTypesOk
    /\ \/ /\ ent[call.entity].kind = "Folder"
          /\ opt.version = 0
          /\ ent[call.entity].name \in ChildNames(call.destinationId)
       \/ /\ ent[call.entity].kind = "File"
          /\ "file" \notin opt.excludeTypes
          /\ FileNameCollides(call.entity, call.destinationId)
       \/ /\ ent[call.entity].kind = "Link"
          /\ "link" \notin opt.excludeTypes
          /\ ent[call.entity].name \in ChildNames(call.destinationId)
       \/ /\ ent[call.entity].kind = "Table"
          /\ "table" \notin opt.excludeTypes
          /\ ent[call.entity].name \in TableNames(call.destinationId)

\* C15: a name collision, a version given for a Project or Folder and an entity
\* of an unsupported kind each end copy() with the error, at once; when an error
\* has left copy() no invocation is left running, no wiki was copied, and from
\* then on no entity is created and no mapping entry added.
C15_FailFast ==
    /\ [][(NameCollision \/ VersionOnContainer \/ Pending("Other")) =>
            /\ status' = "raised"
            /\ err'.entity = call.entity
            /\ err'.type = (IF Pending("Other") THEN "UnsupportedEntityType"
                            ELSE IF VersionOnContainer THEN "InvalidArgument"
                            ELSE "DuplicateName")
            /\ created' = created
            /\ mapping' = mapping
            /\ ent' = ent]_vars
    /\ [](err # NoError =>
            (status = "raised" /\ call = NoCall /\ stack = <<>> /\ wikiCalls = {}))
    /\ [][status = "raised" =>
            (created' = created /\ mapping' = mapping /\ ent' = ent
             /\ wikiCalls' = wikiCalls)]_vars

\* the collision of a child of a Project has ended the copy of a tree that has
\* an entity the walk never reached
C15_Witness ==
    /\ status = "raised"
    /\ err.type = "DuplicateName"
    /\ ent[err.entity].parent = Root
    /\ \E e \in SourceTree : e # err.entity /\ e \notin DOMAIN mapping
                             /\ ent[e].kind \in {"File", "Table"}
                             /\ ~ExcludedKind(e)
    /\ wikiCalls = {}

----------------------------------------------------------------------------
(* copy() called with options or a destination it refuses.  A value of     *)
(* excludeTypes that lines 92-95 refuse, a list with another element or no *)
(* list at all, is a set with an element other than file, link, table.     *)

InitOptions ==
    \E n \in 1..MaxSrc :
    \E t \in Trees(n) :
    \E destKind \in {"Project", "Folder", "File"} :
    \E o \in [version : {0, 1}, update : {FALSE},
              setProvenance : {"traceback", "other"},
              excludeTypes : {{}, {"folder"}, {"not a list"}}] :
        /\ destKind = "File" => t.shape[1] = "Project"
        /\ o.setProvenance = "other" => \E i \in 1..n : t.shape[i] = "File"
        /\ invocation = [number |-> 1, entity |-> Root, copyWikiPage |-> TRUE]
        /\ InitWith(n, t, destKind, "none", 1, o,
                    [createdBy |-> Me, listed |-> TRUE, externalURL |-> 0], NoActivity)

SpecOptions == InitOptions /\ [][Next]_vars

\* the call is for a Project and passes the checks of lines 92-100
ProjectCall ==
    /\ ent[Root].kind = "Project"
    /\ opt.version = 0
    /\ ExcludeTypesOk

\* line 102 has refused the destination: nothing is mapped, nothing created
ProjectRefused ==
    /\ status = "raised"
    /\ err = [type |-> "InvalidArgument", entity |-> Root]
    /\ mapping = EmptyMapping
    /\ created = {}

\* line 104 has taken the destination for the Project
ProjectAccepted ==
    /\ Root \in DOMAIN mapping
    /\ mapping[Root] = DestId
    /\ err.entity # Root

\* C17, as the claim states it: a Project is accepted when the destination is a
\* Project or a Folder, and refused, with nothing mapped or created, otherwise.
C17_ProjectOrFolderAccepted ==
    (ProjectCall /\ call.entity # Root) =>
        IF ent[DestId].kind \in {"Project", "Folder"}
        THEN ProjectAccepted ELSE ProjectRefused

\* C17: a Project is accepted only when the destination is a Project; for a
\* destination of any other kind, a Folder included, the call is refused with
\* nothing mapped and nothing created.
C17_ProjectNeedsProject ==
    (ProjectCall /\ call.entity # Root) =>
        IF ent[DestId].kind = "Project" THEN ProjectAccepted ELSE ProjectRefused

\* a Project was refused because the destination is a Folder
C17_Witness ==
    /\ ProjectCall
    /\ ent[DestId].kind = "Folder"
    /\ Children(Root) # {}
    /\ ProjectRefused

\* C16: an error for a bad option (a version for a Project or Folder, an unknown
\* setProvenance, an excludeTypes that is no list of file, link, table) is raised
\* before any entity is created at the destination, whatever the source tree.
C16_BadOptionBeforeCreation ==
    (status = "raised" /\ err.type = "InvalidArgument") => created = {}

\* C16 for the options _copyRecursive checks itself: a version for a Project or
\* Folder and a bad excludeTypes are refused before any entity is created
C16_VersionAndExcludeTypesEager ==
    (status = "raised" /\ err.type = "InvalidArgument"
        /\ (~ExcludeTypesOk \/ (opt.version # 0 /\ ent[Root].kind \in {"Project", "Folder"})))
        => (created = {} /\ err.entity = Root /\ mapping = EmptyMapping)

----------------------------------------------------------------------------
(* excludeTypes, checked under Spec *)

\* the kinds of entity excludeTypes lists
ExcludedKinds ==
    {k \in {"File", "Link", "Table"} :
        \/ k = "File" /\ "file" \in opt.excludeTypes
        \/ k = "Link" /\ "link" \in opt.excludeTypes
        \/ k = "Table" /\ "table" \in opt.excludeTypes}

\* C18: at every depth of the source tree, an entity of a kind excludeTypes lists
\* is no key of the mapping and no entity of such a kind is created; when copy()
\* has returned, every Project and Folder of the tree and every entity of another
\* kind in it (but a Link whose target is gone) has its copy, of the same kind.
C18_ExcludeTypesAtEveryDepth ==
    /\ \A e \in SourceTree : ExcludedKind(e) => e \notin DOMAIN mapping
    /\ \A c \in created : ent[c].kind \notin ExcludedKinds
    /\ status = "returned" =>
          \A e \in SourceTree :
              (~ExcludedKind(e) /\ ~BrokenLink(e)) =>
                  /\ e \in DOMAIN mapping
                  /\ ent[mapping[e]].kind = ent[e].kind
                  /\ ent[e].kind \in {"Folder", "File", "Table"}
                        => ent[mapping[e]].name = ent[e].name
                  /\ ent[e].kind = "Folder" => mapping[e] \in created

\* two levels down a listed entity was skipped, and in the same tree the Folders
\* were copied
C18_Witness ==
    /\ status = "returned"
    /\ \E e \in SourceTree :
          /\ ExcludedKind(e)
          /\ e # Root
          /\ ent[e].parent # Root
          /\ ent[ent[e].parent].kind = "Folder"
          /\ ent[e].parent \in DOMAIN mapping
          /\ Children(mapping[ent[e].parent]) = {}
    /\ created # {}

----------------------------------------------------------------------------
(* copy() called with mapping=, a dict the caller filled beforehand: line   *)
(* 62 takes that very dict and the walk writes into it.                     *)

\* the dicts a caller passes: empty, or one entry whose key is an entity of the
\* source tree or an entity outside it
Seeds(n) ==
    {EmptyMapping} \cup
    {Put(EmptyMapping, k, v) : k \in (1..n) \cup {LiveTarget}, v \in {ExistingId}}

InitSeeded ==
    \E n \in 1..MaxSrc :
    \E t \in Trees(n) :
    \E destKind \in {"Project", "Folder"} :
    \E o \in [version : {0}, update : {FALSE}, setProvenance : {"traceback"},
              excludeTypes : {{}, {"file"}}] :
    \E seed \in Seeds(n) :
    \E withWikis \in BOOLEAN :
        /\ Relevant(n, t, o)
        /\ invocation = [number |-> 1, entity |-> Root, copyWikiPage |-> withWikis]
        /\ InitCall(n, t, destKind, "none", 1, o,
                    [createdBy |-> Me, listed |-> TRUE, externalURL |-> 0], NoActivity,
                    seed)
        /\ WikiIdle

SpecSeeded == InitSeeded /\ [][Next]_vars

\* C19: within one invocation no key leaves the mapping and no key that is in
\* the mapping gets another value, the keys the caller put there included.
C19_MappingOnlyGrows ==
    [][/\ DOMAIN mapping \subseteq DOMAIN mapping'
       /\ \A k \in DOMAIN mapping : mapping'[k] = mapping[k]]_vars

\* what the walk does keep: no key leaves the mapping, and a key that is no
\* entity of the source tree keeps its value
C19_OutsideKeysKept ==
    [][/\ DOMAIN mapping \subseteq DOMAIN mapping'
       /\ \A k \in DOMAIN mapping \ SourceTree : mapping'[k] = mapping[k]]_vars

----------------------------------------------------------------------------
(* copyWiki with a platform that may refuse a store of the last loop *)

\* line 441: syn.store fails for the page the loop is at
copyWikiStoreRaised ==
    /\ wpc = "store"
    /\ widx <= Len(storeOrder)
    /\ WikiRaise("SynapseHTTPError")
    /\ UNCHANGED <<pages, wopt, oldWh, widx, wikiIdMap, newWikis, storeOrder, nextPage>>
    /\ UNCHANGED <<walkVars, invocation, chunk>>

NextStore ==
    \/ copyWikiStart
    \/ copyWikiPage
    \/ copyWikiUpdateLinks
    \/ copyWikiUpdateSynIds
    \/ copyWikiStore
    \/ copyWikiStoreRaised
    \/ copyWikiReturn

SpecStore == InitWiki /\ [][NextStore]_vars

\* lines 403-436: the markdown s after the passes the options ask for, the keys
\* of wikiIdMap taken in the order of storeOrder
RewrittenMarkdown(s) ==
    LET linked == IF wopt.updateLinks THEN UpdateLinksText(s, storeOrder, 1) ELSE s
    IN IF wopt.updateSynIds /\ wopt.hasEntityMap
       THEN UpdateSynIdsText(linked, <<Root>>, 1)
       ELSE linked

\* C21: until the last loop begins every copied page holds the markdown of a
\* source page copied onto it; in the last loop, and in the state a failed store
\* leaves, a page the loop has passed holds that markdown rewritten by both
\* passes and a page it has not reached still holds the markdown of the source.
C21_StoreAfterBothPasses ==
    \A q \in DOMAIN newWikis :
        LET from == {k \in DOMAIN wikiIdMap : wikiIdMap[k] = q}
            inBatch == storeOrder # <<>> /\ wpc \in {"store", "raised", "done"}
            passed == inBatch /\ \E j \in 1..Len(storeOrder) :
                                     j < widx /\ storeOrder[j] \in from
        IN pages[q].markdown \in
               IF passed THEN {RewrittenMarkdown(pages[k].markdown) : k \in from}
               ELSE {pages[k].markdown : k \in from}

\* a store of the last loop failed after the first page and before the last: one
\* page is rewritten, another still holds the text of its source
C21_Witness ==
    /\ wpc = "raised"
    /\ 1 < widx /\ widx <= Len(storeOrder)
    /\ pages[wikiIdMap[storeOrder[1]]].markdown # pages[storeOrder[1]].markdown
    /\ pages[wikiIdMap[storeOrder[widx]]].markdown = pages[storeOrder[widx]].markdown
    /\ RewrittenMarkdown(pages[storeOrder[widx]].markdown) # pages[storeOrder[widx]].markdown

----------------------------------------------------------------------------
(* The shape of the destination tree, checked under Spec *)

\* C22: the copy of a non-root entity lies under the counterpart of its source
\* parent: the entity the parent is mapped to, or, while the parent Folder is
\* still being walked or the walk was aborted inside it, the new Folder made for
\* it; when copy() has returned the copies have the parents the mapping gives.  An entity is created only under
\* a container that exists already.
C22_CreatedUnderCounterpart ==
    /\ [](\A e \in (DOMAIN mapping) \ {Root} :
             LET p == ent[e].parent
                 d == ent[mapping[e]].parent
             IN /\ ent[d].kind \in {"Project", "Folder"}
                /\ IF p \in DOMAIN mapping
                   THEN mapping[p] = d
                   ELSE /\ status # "returned"
                        /\ ent[p].kind = "Folder"
                        /\ d \in created
                        /\ ent[d].kind = "Folder" /\ ent[d].name = ent[p].name
                        /\ status = "running" =>
                              \E k \in DOMAIN stack :
                                 stack[k].entity = p /\ stack[k].newId = d)
    /\ [][\A c \in created' \ created :
             /\ ent[ent'[c].parent].kind \in {"Project", "Folder"}
             /\ call.entity # Root =>
                   \/ ent[call.entity].parent \in DOMAIN mapping
                         /\ mapping[ent[call.entity].parent] = ent'[c].parent
                   \/ ent'[c].parent \in created]_vars

\* a returned copy in which an entity two levels down has a new copy
C22_Witness ==
    /\ status = "returned"
    /\ \E e \in DOMAIN mapping :
          /\ e # Root
          /\ ent[e].parent # Root
          /\ mapping[e] \in created
          /\ mapping[ent[e].parent] \in created

\* C23: in every state, the state an aborted walk leaves included, every entity
\* this copy has created is the value of exactly one key of the mapping.
C23_CreatedMappedOnce ==
    \A c \in created : Cardinality({k \in DOMAIN mapping : mapping[k] = c}) = 1

\* what the walk does keep: no entity is the value of two keys, every created
\* entity that is no Folder is the value of a key, and so is every created Folder
\* once copy() has returned
C23_MappedOnceButOpenFolders ==
    /\ \A j, k \in DOMAIN mapping : mapping[j] = mapping[k] => j = k
    /\ \A c \in created :
          (ent[c].kind # "Folder" \/ status = "returned")
              => \E k \in DOMAIN mapping : mapping[k] = c

----------------------------------------------------------------------------
(* The sub-page restriction of lines 364-365, checked under SpecWiki *)

\* page p is the page top or lies below it in the wiki of its owner
RECURSIVE PageUnder(_, _)
PageUnder(p, top) ==
    IF p = top THEN TRUE
    ELSE IF p \notin PageIds \/ pages[p].parentWikiId = 0 THEN FALSE
    ELSE PageUnder(pages[p].parentWikiId, top)

\* C24: with entitySubPageId given, whatever the order of the header list, the
\* restricted list names the requested page and the pages below it and no other
\* page, each once; every page but the requested one comes after its parent; the
\* requested page and no other is without parentId.
C24_SubPageHeaders ==
    (wpc = "pages" /\ wopt.entitySubPageId # 0) =>
        LET sub == wopt.entitySubPageId
        IN /\ {oldWh[k].id : k \in DOMAIN oldWh}
                 = {p \in PagesOf(wopt.entity) : PageUnder(p, sub)}
           /\ \A j, k \in DOMAIN oldWh : oldWh[j].id = oldWh[k].id => j = k
           /\ \A k \in DOMAIN oldWh :
                 IF oldWh[k].id = sub THEN oldWh[k].parentId = 0
                 ELSE /\ oldWh[k].parentId = pages[oldWh[k].id].parentWikiId
                      /\ \E j \in 1..(k - 1) : oldWh[j].id = oldWh[k].parentId

\* what the filter does keep: the restricted list names the requested page and
\* the pages below it, each once; and from a header list that names every page
\* after its parent it makes a list for which the rest of the claim holds too
C24_SubPageHeadersParentsFirst ==
    /\ (wpc = "pages" /\ wopt.entitySubPageId # 0) =>
          /\ {oldWh[k].id : k \in DOMAIN oldWh}
                = {p \in PagesOf(wopt.entity) : PageUnder(p, wopt.entitySubPageId)}
          /\ \A j, k \in DOMAIN oldWh : oldWh[j].id = oldWh[k].id => j = k
    /\ (wpc = "start" /\ wopt.entitySubPageId # 0) =>
          \A order \in Perms(PagesOf(wopt.entity)) :
              LET wh == [k \in 1..Len(order) |-> Header(order[k])]
                  sub == wopt.entitySubPageId
                  r == getSubWikiHeaders(wh, sub, <<>>)
              IN (\A k \in DOMAIN wh :
                      wh[k].parentId # 0 => \E j \in 1..(k - 1) : wh[j].id = wh[k].parentId)
                 => \A k \in DOMAIN r :
                       IF r[k].id = sub THEN r[k].parentId = 0
                       ELSE /\ r[k].parentId = pages[r[k].id].parentWikiId
                            /\ \E j \in 1..(k - 1) : r[j].id = r[k].parentId

----------------------------------------------------------------------------
(* The placement of the copied pages, lines 386-401, checked under SpecWiki *)

\* C25: when a source page gets its entry in wikiIdMap: the root of what is
\* copied (the requested sub page, or the parentless page of the wiki) goes, with
\* destinationSubPageId given, onto that page of the destination, markdown and
\* attachments, and no page is created; without it the root becomes a new
\* parentless page of the destination; every other page becomes a new page under
\* the page its source parent is mapped to.
C25_RootPlacement ==
    [][\A p \in (DOMAIN wikiIdMap') \ (DOMAIN wikiIdMap) :
          LET isRoot == IF wopt.entitySubPageId # 0 THEN p = wopt.entitySubPageId
                        ELSE pages[p].parentWikiId = 0
              dsp == wopt.destinationSubPageId
              q == wikiIdMap'[p]
          IN /\ pages'[q].owner = wopt.destinationId
             /\ pages'[q].markdown = pages[p].markdown
             /\ pages'[q].attachments = pages[p].attachments
             /\ IF isRoot /\ dsp # 0
                THEN /\ q = dsp
                     /\ nextPage' = nextPage
                     /\ pages[q].owner = wopt.destinationId
                     /\ pages'[q].parentWikiId = pages[q].parentWikiId
                ELSE /\ q = nextPage /\ pages[q] = NoPage /\ nextPage' = nextPage + 1
                     /\ IF isRoot THEN pages'[q].parentWikiId = 0
                        ELSE /\ pages[p].parentWikiId \in DOMAIN wikiIdMap
                             /\ pages'[q].parentWikiId = wikiIdMap[pages[p].parentWikiId]]_vars

\* what the page loop does keep: the same with the root taken to be the page
\* whose header has no parentId, as line 387 takes it
C25_PlacementByHeader ==
    [][\A p \in (DOMAIN wikiIdMap') \ (DOMAIN wikiIdMap) :
          LET isRoot == oldWh[widx].parentId = 0
              dsp == wopt.destinationSubPageId
              q == wikiIdMap'[p]
          IN /\ p = oldWh[widx].id
             /\ pages'[q].owner = wopt.destinationId
             /\ pages'[q].markdown = pages[p].markdown
             /\ pages'[q].attachments = pages[p].attachments
             /\ IF isRoot /\ dsp # 0
                THEN /\ q = dsp
                     /\ nextPage' = nextPage
                     /\ pages[q].owner = wopt.destinationId
                     /\ pages'[q].parentWikiId = pages[q].parentWikiId
                ELSE /\ q = nextPage /\ pages[q] = NoPage /\ nextPage' = nextPage + 1
                     /\ IF isRoot THEN pages'[q].parentWikiId = 0
                        ELSE /\ pages[p].parentWikiId \in DOMAIN wikiIdMap
                             /\ pages'[q].parentWikiId = wikiIdMap[pages[p].parentWikiId]]_vars

----------------------------------------------------------------------------
(* The rewrite passes on ids of which one is the beginning of another: the  *)
(* source wiki has the pages 1 and 12, copied to the pages 5 and 6; the     *)
(* source pages are not read again after the page loop and are left out.    *)

\* the markdown texts of at most five characters that name ids made of 1 and 2
PrefixTexts == UNION {[1..k -> {"syn", "/wiki/", "1", "2"}] : k \in 0..5}

\* the wiki id map the page loop has built: {1: 5, 12: 6}
PrefixIdMap == [x \in {1, 12} |-> IF x = 1 THEN 5 ELSE 6]

\* the entity maps handed to copyWiki: {syn1: syn3, syn12: syn4}, where one key
\* begins another, and {syn1: syn2, syn2: syn3}, where a value is a key
PrefixEntityMaps ==
    {[x \in {1, 12} |-> IF x = 1 THEN 3 ELSE 4], [x \in {1, 2} |-> x + 1]}

InitPrefix ==
    \E text \in PrefixTexts :
    \E dest \in {3, 12} :
    \E eMap \in PrefixEntityMaps :
    \E links \in BOOLEAN :
        /\ WalkIdle
        /\ chunk = NoChunk
        /\ wopt = [entity |-> 1, destinationId |-> dest, entitySubPageId |-> 0,
                   destinationSubPageId |-> 0, updateLinks |-> links,
                   updateSynIds |-> TRUE, hasEntityMap |-> TRUE, entityMap |-> eMap]
        /\ pages = [p \in PageIds |->
                      IF p \in {5, 6}
                      THEN [owner |-> dest, parentWikiId |-> IF p = 5 THEN 0 ELSE 5,
                            title |-> p, markdown |-> text, attachments |-> <<>>]
                      ELSE NoPage]
        /\ wpc = "pages"
        /\ oldWh = <<>>
        /\ widx = 1
        /\ wikiIdMap = PrefixIdMap
        /\ newWikis = [n \in {5, 6} |-> pages[n]]
        /\ storeOrder = <<>>
        /\ wresult = ""
        /\ nextPage = MaxPageId

SpecPrefix == InitPrefix /\ [][NextRewrite]_vars

\* text begins with pat
IsPrefix(pat, text) == Len(pat) <= Len(text) /\ SubSeq(text, 1, Len(pat)) = pat

\* what the comments of lines 411-413 and 418 ask of the link pass, read from the
\* left: a link to a copied page, the longest that fits, becomes the link to its
\* copy, and any other mention of the source entity names the destination
RECURSIVE LinksRewritten(_)
LinksRewritten(text) ==
    IF text = <<>> THEN <<>>
    ELSE LET ks == {p \in DOMAIN wikiIdMap :
                       IsPrefix(ProjectAndWikiId(wopt.entity, p), text)}
         IN IF ks # {}
            THEN LET p == CHOOSE x \in ks : \A y \in ks : y <= x
                     old == ProjectAndWikiId(wopt.entity, p)
                 IN ProjectAndWikiId(wopt.destinationId, wikiIdMap[p])
                       \o LinksRewritten(SubSeq(text, Len(old) + 1, Len(text)))
            ELSE IF IsPrefix(SynId(wopt.entity), text)
            THEN SynId(wopt.destinationId)
                    \o LinksRewritten(SubSeq(text, Len(SynId(wopt.entity)) + 1, Len(text)))
            ELSE <<text[1]>> \o LinksRewritten(Tail(text))

\* C26: after the link pass, whatever the order in which the keys of wikiIdMap
\* come, the markdown of every copied page is the markdown of its source with
\* every link source/wiki/p to a copied page p reading destination/wiki/q, q the
\* copy of p, and every other mention of the source entity reading the
\* destination, also when one page id begins another.
C26_LinksRewritten ==
    [][(wpc = "pages" /\ wpc' = "synids" /\ wopt.updateLinks) =>
          \A q \in DOMAIN newWikis :
              newWikis'[q].markdown = LinksRewritten(newWikis[q].markdown)]_vars

\* what the link pass does keep: the same when the longer page id comes first
\* among the keys and the destination id does not begin with the source id
C26_LinksRewrittenLongestFirst ==
    [][(wpc = "pages" /\ wpc' = "synids" /\ wopt.updateLinks
          /\ storeOrder' = <<12, 1>> /\ wopt.destinationId = 3) =>
          \A q \in DOMAIN newWikis :
              newWikis'[q].markdown = LinksRewritten(newWikis[q].markdown)]_vars

\* what the claim asks of the pass over the Synapse ids, read from the left: a
\* whole id, "syn" and all the digits after it, that is a key of the entity map
\* becomes the id the map gives, once; everything else stays
RECURSIVE SynIdsRewritten(_)
SynIdsRewritten(text) ==
    IF text = <<>> THEN <<>>
    ELSE LET ks == {k \in DOMAIN wopt.entityMap :
                       /\ IsPrefix(SynId(k), text)
                       /\ \/ Len(text) = Len(SynId(k))
                          \/ \A d \in DOMAIN DigitChars :
                                DigitChars[d] # text[Len(SynId(k)) + 1]}
         IN IF ks # {}
            THEN LET k == CHOOSE x \in ks : TRUE
                 IN SynId(wopt.entityMap[k])
                       \o SynIdsRewritten(SubSeq(text, Len(SynId(k)) + 1, Len(text)))
            ELSE <<text[1]>> \o SynIdsRewritten(Tail(text))

\* C27: whatever the order in which the keys of the entity map come, the pass
\* over the Synapse ids turns the markdown of every copied page into the same
\* text: every id that is a key k reads entityMap[k], replaced once, what a
\* replacement wrote is not rewritten by another entry, and an id that only
\* begins with a key is left alone.
C27_SynIdsRewrittenOnce ==
    [][(wpc = "synids" /\ wpc' = "store") =>
          \A q \in DOMAIN newWikis :
              newWikis'[q].markdown = SynIdsRewritten(newWikis[q].markdown)]_vars

\* what the pass does keep: the same when no value of the entity map is a key and
\* the markdown names no id of more than one digit
C27_SynIdsRewrittenShortIds ==
    [][(wpc = "synids" /\ wpc' = "store"
          /\ \A k \in DOMAIN wopt.entityMap : wopt.entityMap[k] \notin DOMAIN wopt.entityMap) =>
          \A q \in DOMAIN newWikis :
              LET text == newWikis[q].markdown
              IN (\A i \in 1..(Len(text) - 1) :
                     ~(text[i] \in {"1", "2", "3", "5", "6"} /\ text[i + 1] \in {"1", "2", "3", "5", "6"}))
                 => newWikis'[q].markdown = SynIdsRewritten(text)]_vars

----------------------------------------------------------------------------
(* _copyTable called on its own, lines 245-286, with setAnnotations given:  *)
(* opt carries the argument in a field of that name.                        *)

copyTableCall ==
    /\ Pending("Table")
    /\ UNCHANGED <<fileHandles, opt, downloaded, nextHandle, wikiCalls, mapping>>
    /\ IF ent[call.entity].name \in TableNames(call.destinationId)
       THEN Raise("DuplicateName") /\ UNCHANGED <<ent, created, nextId>>
       ELSE LET newTableSchema ==
                    [NoEnt EXCEPT !.kind = "Table", !.name = ent[call.entity].name,
                                  !.parent = call.destinationId,
                                  !.columnIds = ent[call.entity].columnIds,
                                  !.annotations = IF opt.setAnnotations
                                                  THEN ent[call.entity].annotations
                                                  ELSE 0]
                d == ent[call.entity].rows
                r == IF d > 0 THEN [newTableSchema EXCEPT !.rows = d] ELSE newTableSchema
            IN IF StoreFails(r)
               THEN Raise("RemoteError") /\ UNCHANGED <<ent, created, nextId>>
               ELSE /\ Stored(r)
                    /\ status' = "returned"
                    /\ call' = NoCall
                    /\ UNCHANGED <<err, stack>>
    /\ UNCHANGED <<wikiVars, invocation, chunk>>

\* a Table of no, one or two rows, with or without annotations; the destination
\* a Project or a Folder, empty or holding a Table or a File, named like the
\* source Table or not
InitTable ==
    \E rows \in 0..2 :
    \E annotations \in 0..1 :
    \E destKind \in {"Project", "Folder"} :
    \E exKind \in {"none", "Table", "File"} :
    \E exName \in {Root, ExistingId} :
    \E setAnnotations \in BOOLEAN :
        /\ exKind = "none" => exName = Root
        /\ ent = [i \in Ids |->
                    IF i = Root
                    THEN [NoEnt EXCEPT !.kind = "Table", !.name = Root,
                                       !.annotations = annotations,
                                       !.columnIds = Root, !.rows = rows]
                    ELSE IF i = DestId THEN [NoEnt EXCEPT !.kind = destKind, !.name = DestId]
                    ELSE IF i = ExistingId THEN ExistingEnt(exKind, exName)
                    ELSE NoEnt]
        /\ fileHandles = [h \in HandleIds |->
                    IF h = MaxSrc + 1
                    THEN [createdBy |-> Other, listed |-> TRUE, externalURL |-> 0]
                    ELSE NoHandle]
        /\ mapping = EmptyMapping
        /\ call = [entity |-> Root, destinationId |-> DestId]
        /\ stack = <<>>
        /\ status = "running"
        /\ err = NoError
        /\ opt = [version |-> 0, update |-> FALSE, setProvenance |-> "traceback",
                  excludeTypes |-> {}, setAnnotations |-> setAnnotations]
        /\ created = {}
        /\ downloaded = {}
        /\ nextId = FirstNewId
        /\ nextHandle = FirstNewHandle
        /\ wikiCalls = {}
        /\ invocation = NoInvocation
        /\ chunk = NoChunk
        /\ WikiIdle

SpecTable == InitTable /\ [][copyTableCall]_vars

\* C28: the Table copier raises the name collision and creates nothing when a
\* Table of the source's name lies in the destination; otherwise, when it
\* returns, it has created one Table there and changed no other entity: of the
\* source's name and column ids, with all the rows of the source, and with the
\* annotations of the source when setAnnotations is set and none otherwise; when
\* it raises it has created nothing.
C28_OneTablePerSource ==
    [][Pending("Table") =>
          LET src == ent[call.entity]
              dest == call.destinationId
          IN IF \E i \in Children(dest) : ent[i].kind = "Table" /\ ent[i].name = src.name
             THEN /\ status' = "raised" /\ err'.type = "DuplicateName"
                  /\ ent' = ent /\ created' = created
             ELSE /\ status' \in {"returned", "raised"}
                  /\ status' = "raised" => (ent' = ent /\ created' = created)
                  /\ status' = "returned" =>
                        \E c \in Ids \ created :
                            /\ created' = created \cup {c}
                            /\ ent[c].kind = "none"
                            /\ \A i \in Ids \ {c} : ent'[i] = ent[i]
                            /\ ent'[c].kind = "Table"
                            /\ ent'[c].name = src.name
                            /\ ent'[c].parent = dest
                            /\ ent'[c].columnIds = src.columnIds
                            /\ ent'[c].rows = src.rows
                            /\ ent'[c].annotations =
                                  (IF opt.setAnnotations THEN src.annotations ELSE 0)]_vars

\* what the Table copier does keep: the same when the destination is a Project
C28_OneTablePerSourceInProject ==
    [][(Pending("Table") /\ ent[call.destinationId].kind = "Project") =>
          LET src == ent[call.entity]
              dest == call.destinationId
          IN IF \E i \in Children(dest) : ent[i].kind = "Table" /\ ent[i].name = src.name
             THEN /\ status' = "raised" /\ err'.type = "DuplicateName"
                  /\ ent' = ent /\ created' = created
             ELSE /\ status' \in {"returned", "raised"}
                  /\ status' = "raised" => (ent' = ent /\ created' = created)
                  /\ status' = "returned" =>
                        \E c \in Ids \ created :
                            /\ created' = created \cup {c}
                            /\ ent[c].kind = "none"
                            /\ \A i \in Ids \ {c} : ent'[i] = ent[i]
                            /\ ent'[c].kind = "Table"
                            /\ ent'[c].name = src.name
                            /\ ent'[c].parent = dest
                            /\ ent'[c].columnIds = src.columnIds
                            /\ ent'[c].rows = src.rows
                            /\ ent'[c].annotations =
                                  (IF opt.setAnnotations THEN src.annotations ELSE 0)]_vars

----------------------------------------------------------------------------
(* copy() called with a destination that is the source container itself or *)
(* a Folder inside the source tree.  The platform has MaxId ids: when they *)
(* are used up the model stops.                                            *)

InitInside ==
    \E n \in 1..MaxSrc :
    \E t \in Trees(n) :
    \E dest \in 1..n :
        /\ t.shape[dest] \in {"Project", "Folder"}
        /\ ent = [i \in Ids |->
                    IF i \in 1..n THEN SourceEnt(i, t.shape[i], t.par[i], NoActivity)
                    ELSE IF i = LiveTarget
                         THEN [NoEnt EXCEPT !.kind = "File", !.name = LiveTarget,
                                            !.dataFileHandleId = MaxSrc + 2]
                    ELSE NoEnt]
        /\ fileHandles = [h \in HandleIds |->
                    IF h \in 1..n /\ t.shape[h] = "File"
                    THEN [createdBy |-> Me, listed |-> TRUE, externalURL |-> 0]
                    ELSE IF h = MaxSrc + 2
                         THEN [createdBy |-> Other, listed |-> TRUE, externalURL |-> 0]
                    ELSE NoHandle]
        /\ mapping = EmptyMapping
        /\ call = [entity |-> Root, destinationId |-> dest]
        /\ stack = <<>>
        /\ status = "running"
        /\ err = NoError
        /\ opt = [version |-> 0, update |-> FALSE, setProvenance |-> "traceback",
                  excludeTypes |-> {}]
        /\ created = {}
        /\ downloaded = {}
        /\ nextId = FirstNewId
        /\ nextHandle = FirstNewHandle
        /\ wikiCalls = {}
        /\ invocation = [number |-> 1, entity |-> Root, copyWikiPage |-> FALSE]
        /\ chunk = NoChunk
        /\ WikiIdle

NextInside ==
    \/ nextId <= MaxId /\ copyRecursiveProject
    \/ nextId <= MaxId /\ copyFolder
    \/ nextId <= MaxId /\ nextChild
    \/ nextId <= MaxId /\ copyProjectReturn
    \/ nextId <= MaxId /\ copyFolderReturn
    \/ nextId <= MaxId /\ copyFile
    \/ nextId <= MaxId /\ copyLink
    \/ nextId <= MaxId /\ copyTable
    \/ nextId <= MaxId /\ copyRecursiveOther
    \/ nextId <= MaxId /\ copyReturn

SpecInside == InitInside /\ [][NextInside]_vars

\* C29: also with the destination inside the source tree, the walk never visits
\* an entity it has created itself, never goes deeper than the source tree has
\* entities, and creates no more entities than the source tree had when copy()
\* was called.
C29_EachSourceEntityOnce ==
    LET source == SourceTree \cap (1..MaxSrc)
    IN /\ call # NoCall => call.entity \notin created
       /\ Len(stack) <= Cardinality(source)
       /\ Cardinality(created) <= Cardinality(source)

\* copy() is one sequential call: while a step is possible, it is taken
SpecLive == Spec /\ WF_vars(Next)

\* what the walk does keep: with the destination outside the source tree
\* copy() comes to an end, returned or raised, and the bounds of C29 hold
C29_TerminatesOutsideSource ==
    /\ <>(status \in {"returned", "raised"})
    /\ []C29_EachSourceEntityOnce

----------------------------------------------------------------------------
(* The copyWiki calls of copy(), lines 65-69, checked under SpecSeeded *)

\* C30: when copy() with copyWikiPage set has returned, copyWiki has been called
\* once for every entity this invocation copied, onto its copy, and for no other
\* entity: not for a key the caller put into the mapping beforehand.
C30_WikiCallsForCopiedOnly ==
    (status = "returned" /\ invocation.copyWikiPage) =>
        LET copied == {e \in DOMAIN mapping : mapping[e] \in created \cup {DestId}}
        IN /\ {c[1] : c \in wikiCalls} = copied
           /\ \A c \in wikiCalls : c[2] = mapping[c[1]]
           /\ \A c, d \in wikiCalls : c[1] = d[1] => c = d

\* what copy() does keep: copyWiki is called once for every key of the mapping,
\* onto its value, whoever wrote the entry
C30_WikiCallsForEveryKey ==
    (status = "returned" /\ invocation.copyWikiPage) =>
        wikiCalls = {<<e, mapping[e]>> : e \in DOMAIN mapping}

----------------------------------------------------------------------------
(* utils.Chunk and utils.chunks: a file read through fixed-size windows *)

\* the largest file size and chunk size drawn
MaxSize == 3

\* utils.BUFFER_SIZE, the read size of one iteration step (8*KB in the source),
\* scaled so that a window takes several steps
BUFFER_SIZE == 2

\* Chunk.read without the clamp to the rest of the window
readUnclamped(c, n) ==
    LET size == IF n <= 0 THEN c.size - c.position ELSE n
    IN IF c.closed \/ size <= 0
       THEN [c EXCEPT !.returned = "None"]
       ELSE LET got == IF size < c.fileobj THEN size ELSE c.fileobj
            IN [c EXCEPT !.position = c.position + size,
                         !.requested = c.requested + size,
                         !.fileobj = c.fileobj - got,
                         !.returned = IF got > 0 THEN "data" ELSE "empty"]

\* Chunk.read(size): n <= 0 stands for None and for a size that is not positive.
\* The file object hands out what it has left, which may be less than asked
\* for; requested counts the bytes asked of it, returned is what read returns:
\* None, a non-empty string ("data") or the empty string ("empty").
read(c, n) ==
    LET rest == c.size - c.position
        size == IF n <= 0 THEN rest ELSE IF n < rest THEN n ELSE rest
    IN IF c.closed \/ size <= 0
       THEN [c EXCEPT !.returned = "None"]
       ELSE LET got == IF size < c.fileobj THEN size ELSE c.fileobj
            IN [c EXCEPT !.position = c.position + size,
                         !.requested = c.requested + size,
                         !.fileobj = c.fileobj - got,
                         !.returned = IF got > 0 THEN "data" ELSE "empty"]

\* a caller reads from the Chunk
readCall ==
    /\ chunk.exists
    /\ \E n \in -1..(MaxSize + 1) : chunk' = [read(chunk, n) EXCEPT !.op = "read"]
    /\ UNCHANGED <<walkVars, wikiVars, invocation>>

\* Chunk.next(): one step of the iteration over the Chunk
next ==
    /\ chunk.exists
    /\ chunk' =
         IF chunk.closed
         THEN [chunk EXCEPT !.op = "next", !.returned = "StopIteration"]
         ELSE LET c == read(chunk, BUFFER_SIZE)
              IN [c EXCEPT !.op = "next",
                           !.returned = IF c.returned \in {"None", "empty"}
                                        THEN "StopIteration" ELSE c.returned]
    /\ UNCHANGED <<walkVars, wikiVars, invocation>>

\* Chunk.close()
close ==
    /\ chunk.exists
    /\ chunk' = [chunk EXCEPT !.op = "close", !.closed = TRUE, !.returned = ""]
    /\ UNCHANGED <<walkVars, wikiVars, invocation>>

\* one turn of the loop of chunks(): the generator yields the next Chunk, over
\* the same file object, and the caller takes it in place of the one before
chunks ==
    /\ chunk.remaining > 0
    /\ LET size == IF chunk.remaining < chunk.chunksize
                   THEN chunk.remaining ELSE chunk.chunksize
       IN chunk' = [chunk EXCEPT !.op = "chunks", !.exists = TRUE,
                                 !.size = size, !.position = 0,
                                 !.closed = FALSE, !.requested = 0,
                                 !.returned = "",
                                 !.remaining = chunk.remaining - size]
    /\ UNCHANGED <<walkVars, wikiVars, invocation>>

\* chunks(fileobj, chunksize) is called on a file of st_size bytes; the file
\* object may stand anywhere in the file, so it has at most st_size bytes left
InitChunk ==
    /\ WalkIdle
    /\ WikiIdle
    /\ \E st_size \in 0..MaxSize, left \in 0..MaxSize, chunksize \in 0..MaxSize :
        /\ left <= st_size
        /\ chunk = [NoChunk EXCEPT !.fileobj = left, !.remaining = st_size,
                                   !.chunksize = chunksize]

NextChunk ==
    \/ chunks
    \/ readCall
    \/ next
    \/ close

SpecChunk == InitChunk /\ [][NextChunk]_vars

\* C31: a Chunk is a fixed-size window over the file. Whatever read(n), next()
\* and close() calls were made, 0 <= position <= size and the bytes requested
\* from the file object through the Chunk never exceed size; a read at
\* position = size returns None and asks the file for nothing; once the Chunk
\* is closed every read returns None, next() raises StopIteration, and neither
\* moves the position or asks the file for anything.
C31_ChunkWindow ==
    /\ [](chunk.exists =>
            /\ 0 <= chunk.position
            /\ chunk.position <= chunk.size
            /\ chunk.requested <= chunk.size)
    /\ [][(chunk.exists /\ chunk'.op = "read"
             /\ (chunk.closed \/ chunk.position = chunk.size)) =>
            /\ chunk'.returned = "None"
            /\ chunk'.position = chunk.position
            /\ chunk'.requested = chunk.requested
            /\ chunk'.fileobj = chunk.fileobj]_vars
    /\ [][(chunk.exists /\ chunk'.op = "next" /\ chunk.closed) =>
            /\ chunk'.returned = "StopIteration"
            /\ chunk'.position = chunk.position
            /\ chunk'.requested = chunk.requested
            /\ chunk'.fileobj = chunk.fileobj]_vars
    /\ [][(chunk.exists /\ chunk.closed /\ chunk'.op # "chunks") =>
            chunk'.closed]_vars

\* a Chunk closed in the middle of its window was read from again: read
\* returned None and the window stayed where it was
C31_Witness ==
    /\ chunk.exists
    /\ chunk.closed
    /\ chunk.op = "read"
    /\ chunk.returned = "None"
    /\ 0 < chunk.position
    /\ chunk.position < chunk.size
    /\ chunk.requested = chunk.position

====
